---- MODULE Spec2Model ----
(***************************************************************************)
(* A model of sqlparams: the conversion of a SQL query written with one   *)
(* parameter style (named, numeric, ordinal) into another style, together *)
(* with the conversion of its parameters.                                  *)
(*                                                                         *)
(* A query is the sequence of pieces re.sub() walks over: literal text    *)
(* and the matches of the in-style regular expression.  A replacement is  *)
(* a sequence of atoms (literal text or one out-style marker); the text   *)
(* of the rewritten query is the concatenation of the atoms' strings.     *)
(*                                                                         *)
(* A Python value is [tup, v]: a tuple (tup = TRUE, v its elements) or    *)
(* any other value (tup = FALSE, v = <<its name>>).  A parameter set is   *)
(* [shape, seq, map]: a list ("seq"), a dict ("map"), a str ("str") or    *)
(* anything else ("other").                                                *)
(***************************************************************************)
EXTENDS Integers, Sequences, FiniteSets, TLC

\* ------------------------------------------------------------------ bounds
MaxQuery == 3      \* pieces in a query
MaxTuple == 2      \* elements in a tuple parameter
MaxRows == 2       \* parameter sets given to formatmany
MaxManyQuery == 2  \* matches in a query given to formatmany

\* ------------------------------------------------------------------ styles
\* the two dialect styles of the registry: a named style whose identifiers
\* are folded to upper case unless written in double quotes, and the
\* "@name" style.  lead is the character a marker starts with
DIALECT_STYLES ==
  [named_oracle |-> [kind |-> "named", escape_char |-> ":", lead |-> ":",
                     param_quotes |-> TRUE],
   named_sqlserver |-> [kind |-> "named", escape_char |-> "@", lead |-> "@",
                        param_quotes |-> FALSE]]

IsDialect(name) == name \in DOMAIN DIALECT_STYLES

\* Style.param_quotes: set for the style that folds and quotes identifiers
param_quotes(name) == IsDialect(name) /\ DIALECT_STYLES[name].param_quotes

\* the allow_out_quotes the converter is created with: the constructor of
\* SQLParams takes no such keyword, the out names are left unquoted
allow_out_quotes == FALSE

\* isinstance(style, NamedStyle | NumericStyle | OrdinalStyle)
StyleKind(name) ==
  CASE name \in {"named", "named_dollar", "pyformat"} -> "named"
    [] name \in {"numeric", "numeric_dollar"} -> "numeric"
    [] name \in {"format", "qmark"} -> "ordinal"
    [] IsDialect(name) -> DIALECT_STYLES[name].kind

\* Style.escape_char
StyleEscapeChar(name) ==
  CASE name \in {"format", "pyformat"} -> "%"
    [] name \in {"named", "numeric"} -> ":"
    [] name \in {"named_dollar", "numeric_dollar"} -> "$"
    [] name = "qmark" -> "?"
    [] IsDialect(name) -> DIALECT_STYLES[name].escape_char

\* NumericStyle.start of the two numeric styles
NumericStart == 1

\* Style.out_format.format(param=param), param already a string
OutFormat(name, param) ==
  CASE name = "format" -> "%s"
    [] name = "named" -> ":" \o param
    [] name = "named_dollar" -> "$" \o param
    [] name = "numeric" -> ":" \o param
    [] name = "numeric_dollar" -> "$" \o param
    [] name = "pyformat" -> "%(" \o param \o ")s"
    [] name = "qmark" -> "?"
    [] IsDialect(name) -> DIALECT_STYLES[name].lead \o param

\* ------------------------------------------------------------------ values
Scalar(e) == [tup |-> FALSE, v |-> <<e>>]
Tuple(s) == [tup |-> TRUE, v |-> s]
\* The None placeholder of [None] * size
None == [tup |-> FALSE, v |-> <<>>]

\* isinstance(value, tuple)
IsTuple(value) == value.tup

\* atoms of a replacement
Lit(s) == [t |-> "lit", s |-> s]
Mark(s) == [t |-> "mark", s |-> s]

\* a result of an operation that may raise
Ok(x) == [ok |-> TRUE, v |-> x, err |-> "none"]
Raise(e) == [ok |-> FALSE, v |-> None, err |-> e]

EmptyDict == [x \in {} |-> None]
\* d[k] = val on a dict
Put(d, k, val) == [x \in (DOMAIN d) \cup {k} |-> IF x = k THEN val ELSE d[x]]

ListParams(s) == [shape |-> "seq", seq |-> s, map |-> EmptyDict]
DictParams(d) == [shape |-> "map", seq |-> <<>>, map |-> d]
\* a dict with the order of its keys, the order in_params.items() gives them
ItemsDict(keys, d) == [shape |-> "map", seq |-> keys, map |-> d]
StrParams == [shape |-> "str", seq |-> <<>>, map |-> EmptyDict]
BytesParams == [shape |-> "bytes", seq |-> <<>>, map |-> EmptyDict]

\* isinstance(params, Mapping)
is_mapping(p) == p.shape = "map"

\* _util.is_sequence: a Sequence that is not a str or bytes
is_sequence(p) == p.shape = "seq"

\* in_params[key]: list indexing (negative indices count from the end) or
\* dict lookup
GetItem(p, key) ==
  IF p.shape = "seq"
  THEN LET n == Len(p.seq) IN
       IF key >= 0 /\ key < n THEN Ok(p.seq[key + 1])
       ELSE IF key < 0 /\ key >= -n THEN Ok(p.seq[n + key + 1])
       ELSE Raise("IndexError")
  ELSE IF key \in DOMAIN p.map THEN Ok(p.map[key]) ELSE Raise("KeyError")

\* ---------------------------------------------------------------- mappings
\* keys of a dict given as numeric or ordinal parameters
IntKey(n) == [t |-> "int", n |-> n, s |-> ""]
StrKey(s) == [t |-> "str", n |-> 0, s |-> s]

\* str.isdigit() on the decimal strings of one digit
IsDigitStr(s) == \E n \in 0..9 : ToString(n) = s
\* int(key)
IntOf(key) ==
  IF key.t = "int" THEN key.n ELSE CHOOSE n \in 0..9 : ToString(n) = key.s

\* the comprehension shared by both _mapping_as_sequence methods:
\* {int(k) - start: v for k, v in items if k is an int or a digit string}
MappingAsSequence(p, start) ==
  LET keep == {k \in DOMAIN p.map : k.t = "int" \/ IsDigitStr(k.s)}
      ints == {IntOf(k) - start : k \in keep}
  IN DictParams([i \in ints |->
       p.map[CHOOSE k \in keep : IntOf(k) - start = i]])

\* NumericConverter._mapping_as_sequence
Numeric_mapping_as_sequence(p) == MappingAsSequence(p, NumericStart)

\* OrdinalConverter._mapping_as_sequence
Ordinal_mapping_as_sequence(p) == MappingAsSequence(p, 0)

\* ------------------------------------------------------------------ pieces
\* the pieces of a query: literal text between matches, and the matches of
\* the in-style regular expression by the group that matched
\* quote is the group "quote" of a match: the double quote a name is
\* written in, empty if there is none
TextPiece(s) ==
  [t |-> "text", s |-> s, name |-> "", num |-> 0, esc |-> <<>>, quote |-> ""]
NamedParam(name) ==
  [t |-> "param", s |-> "", name |-> name, num |-> 0, esc |-> <<>>,
   quote |-> ""]
QuotedParam(name) == [NamedParam(name) EXCEPT !.quote = "\""]
\* a numeric match: the digits matched, and the number they are
NumericMatch(in_num_str, num) ==
  [t |-> "param", s |-> "", name |-> in_num_str, num |-> num, esc |-> <<>>,
   quote |-> ""]
NumericParam(num) == NumericMatch(ToString(num), num)
OrdinalParam ==
  [t |-> "param", s |-> "", name |-> "", num |-> 0, esc |-> <<>>, quote |-> ""]
EscapePiece(chars) ==
  [t |-> "escape", s |-> "", name |-> "", num |-> 0, esc |-> chars,
   quote |-> ""]
OutPercentPiece ==
  [t |-> "out_percent", s |-> "", name |-> "", num |-> 0, esc |-> <<>>,
   quote |-> ""]

RECURSIVE ConcatChars(_)
ConcatChars(chars) ==
  IF chars = <<>> THEN "" ELSE Head(chars) \o ConcatChars(Tail(chars))

\* str.upper() of a name: the letters a-z become A-Z
LowerCase == "abcdefghijklmnopqrstuvwxyz"
UpperCase == "ABCDEFGHIJKLMNOPQRSTUVWXYZ"
UpperChar(c) ==
  IF \E k \in 1..Len(LowerCase) : SubSeq(LowerCase, k, k) = c
  THEN LET k == CHOOSE k \in 1..Len(LowerCase) : SubSeq(LowerCase, k, k) = c
       IN SubSeq(UpperCase, k, k)
  ELSE c
upper(s) == ConcatChars([i \in 1..Len(s) |-> UpperChar(SubSeq(s, i, i))])

\* _quote_oracle_param: the name in double quotes, its double quotes doubled
quote_oracle_param(param) ==
  "\"" \o ConcatChars([i \in 1..Len(param) |->
                        IF SubSeq(param, i, i) = "\"" THEN "\"\""
                        ELSE SubSeq(param, i, i)]) \o "\""

\* _unquote_oracle_param folding a key in double quotes as well
unquote_and_fold(param) ==
  LET n == Len(param)
      first == SubSeq(param, 1, 1)
      last == SubSeq(param, n, n)
  IN IF n > 1 /\ first = "\"" /\ last = "\""
     THEN Ok(upper(SubSeq(param, 2, n - 1)))
     ELSE IF n > 0 /\ (first = "\"" \/ last = "\"") THEN Raise("KeyError")
     ELSE Ok(upper(param))

\* _unquote_oracle_param: a key in double quotes is the name between them,
\* a key with a double quote at one end only is no key, any other key is
\* folded to upper case
unquote_oracle_param(param) ==
  LET n == Len(param)
      first == SubSeq(param, 1, 1)
      last == SubSeq(param, n, n)
  IN IF n > 1 /\ first = "\"" /\ last = "\""
     THEN Ok(SubSeq(param, 2, n - 1))
     ELSE IF n > 0 /\ (first = "\"" \/ last = "\"") THEN Raise("KeyError")
     ELSE Ok(upper(param))

\* a parameter looked up: the name it goes by, the key it has in in_params
\* and its value
Found(in_name, in_name_param, value) ==
  [ok |-> TRUE, err |-> "none", in_name |-> in_name,
   in_name_param |-> in_name_param, v |-> value]
NotFound(e) ==
  [ok |-> FALSE, err |-> e, in_name |-> "", in_name_param |-> "", v |-> None]

\* for in_name_param, in_value in in_params.items(): the first key that
\* unquoted is in_name; KeyError(in_name_sql) if there is none
RECURSIVE FirstItemNamed(_, _, _)
FirstItemNamed(in_params, in_name, k) ==
  IF k > Len(in_params.seq) THEN NotFound("KeyError")
  ELSE LET in_name_param == in_params.seq[k]
           unquoted == unquote_oracle_param(in_name_param)
       IN IF ~unquoted.ok THEN NotFound(unquoted.err)
          ELSE IF unquoted.v = in_name
          THEN Found(in_name, in_name_param, in_params.map[in_name_param])
          ELSE FirstItemNamed(in_params, in_name, k + 1)

\* the start of the value branch of the three callbacks of a named
\* in-style: the parameter the match refers to
NamedItem(self, in_params, match) ==
  LET in_name_sql == match.name IN
  IF param_quotes(self.in_style)
  THEN FirstItemNamed(in_params,
                      IF match.quote # "" THEN in_name_sql
                      ELSE upper(in_name_sql), 1)
  ELSE LET got == GetItem(in_params, in_name_sql) IN
       IF got.ok THEN Found(in_name_sql, in_name_sql, got.v)
       ELSE NotFound(got.err)

\* ",".join(replacements) inside "({})"
RECURSIVE JoinComma(_)
JoinComma(marks) ==
  IF Len(marks) <= 1 THEN marks
  ELSE <<Head(marks), Lit(",")>> \o JoinComma(Tail(marks))

Paren(marks) == <<Lit("(")>> \o JoinComma(marks) \o <<Lit(")")>>

\* the atoms of a rewritten query: the replacements in order
RECURSIVE Flat(_)
Flat(replaced) ==
  IF replaced = <<>> THEN <<>> ELSE Head(replaced) \o Flat(Tail(replaced))

\* the text of a sequence of atoms
RECURSIVE AtomsText(_)
AtomsText(atoms) ==
  IF atoms = <<>> THEN "" ELSE Head(atoms).s \o AtomsText(Tail(atoms))

\* -------------------------------------------------------------- converters
\* Converter.__init__: the fields of a converter
Converter(in_style, out_style, escape_char, expand_tuples) ==
  [in_style |-> in_style, out_style |-> out_style,
   escape_start |-> IF escape_char = "" THEN 0 ELSE 1,
   expand_tuples |-> expand_tuples,
   out_quotes |-> param_quotes(out_style) /\ allow_out_quotes]

\* SQLParams.__create_converter choosing the class by the out-style alone
ConverterClassOfOut(self) ==
  <<StyleKind(self.out_style), StyleKind(self.out_style)>>

\* SQLParams.__create_converter: the class chosen by the two style kinds
ConverterClass(self) ==
  <<StyleKind(self.in_style), StyleKind(self.out_style)>>

\* the scan state a convert() call threads through its callbacks
NewScan ==
  [param_conversions |-> <<>>, in_counter |-> 0, out_counter |-> 0,
   out_lookup |-> EmptyDict]

Conv(expand, in, out) == [expand |-> expand, in |-> in, out |-> out]

Replaced(st, repl) == [ok |-> TRUE, err |-> "none", st |-> st, repl |-> repl]
Failed(st, e) == [ok |-> FALSE, err |-> e, st |-> st, repl |-> <<>>]

\* an out-percent match replaced by itself
PercentReplSingle == <<Lit("%")>>

\* the first two branches of the callbacks: an out-percent match gives "%%",
\* an escape match gives escape[self._escape_start:]
PercentRepl == <<Lit("%%")>>
\* an escape match replaced by itself, escape character included
EscapeReplWhole(self, match) == <<Lit(ConcatChars(match.esc))>>
EscapeRepl(self, match) ==
  <<Lit(ConcatChars(SubSeq(match.esc, self.escape_start + 1, Len(match.esc))))>>

\* out_lookup.get(key)
LookupKey(ref, i) == [r |-> ref, i |-> i]

\* the out names of an expanded named parameter: f"{in_name}__{i}_sqlp"
NamedSubNames(in_name, value) ==
  [i \in 1..Len(value.v) |-> in_name \o "__" \o ToString(i - 1) \o "_sqlp"]

\* the out names of an expanded numeric or ordinal parameter: f"_{n}_{i}"
IndexSubNames(n, value) ==
  [i \in 1..Len(value.v) |-> "_" \o n \o "_" \o ToString(i - 1)]

OutMarks(self, params) ==
  [i \in 1..Len(params) |-> Mark(OutFormat(self.out_style, params[i]))]

\* the tail of the three callbacks with a named out-style, once the value and
\* the out names are known
ToNamedRepl(self, st, value, ref, simple_name, sub_names) ==
  LET out_name == IF self.out_quotes THEN quote_oracle_param(simple_name)
                  ELSE simple_name
      out_names == IF self.out_quotes
                   THEN [i \in DOMAIN sub_names |->
                           quote_oracle_param(sub_names[i])]
                   ELSE sub_names
  IN
  IF self.expand_tuples /\ IsTuple(value)
  THEN IF value.v = <<>>
       THEN Replaced(st, <<Lit("(NULL)")>>)
       ELSE Replaced(
              [st EXCEPT !.param_conversions =
                 Append(@, Conv(TRUE, ref, out_names))],
              Paren(OutMarks(self, out_names)))
  ELSE Replaced(
         [st EXCEPT !.param_conversions =
            Append(@, Conv(FALSE, ref, <<out_name>>))],
         <<Mark(OutFormat(self.out_style, out_name))>>)

\* ToOrdinalRepl recording a conversion for the first match of a reference
\* only
ToOrdinalReplOncePerRef(self, st, value, ref) ==
  LET seen == \E k \in 1..Len(st.param_conversions) :
                st.param_conversions[k].in = ref
      record(c) == IF seen THEN st
                   ELSE [st EXCEPT !.param_conversions = Append(@, c)]
  IN IF self.expand_tuples /\ IsTuple(value)
     THEN IF value.v = <<>>
          THEN Replaced(st, <<Lit("(NULL)")>>)
          ELSE Replaced(record(Conv(TRUE, ref, <<Len(value.v)>>)),
                        Paren([i \in 1..Len(value.v) |->
                                 Mark(OutFormat(self.out_style, ""))]))
     ELSE Replaced(record(Conv(FALSE, ref, <<>>)),
                   <<Mark(OutFormat(self.out_style, ""))>>)

\* the tail of the three callbacks with an ordinal out-style
ToOrdinalRepl(self, st, value, ref) ==
  IF self.expand_tuples /\ IsTuple(value)
  THEN IF value.v = <<>>
       THEN Replaced(st, <<Lit("(NULL)")>>)
       ELSE Replaced(
              [st EXCEPT !.param_conversions =
                 Append(@, Conv(TRUE, ref, <<Len(value.v)>>))],
              Paren([i \in 1..Len(value.v) |->
                       Mark(OutFormat(self.out_style, ""))]))
  ELSE Replaced(
         [st EXCEPT !.param_conversions = Append(@, Conv(FALSE, ref, <<>>))],
         <<Mark(OutFormat(self.out_style, ""))>>)

\* NumericRepl without the start of the out-style: numbers from 0
NumericReplFromZero(self, out_index) ==
  Mark(OutFormat(self.out_style, ToString(out_index)))

\* out_num = out_index + self.__out_start; out_repl = format(param=out_num)
NumericRepl(self, out_index) ==
  Mark(OutFormat(self.out_style, ToString(out_index + NumericStart)))

\* the loop over the elements of a tuple in the callbacks that cache out
\* numbers: acc is [st, is_new, out_indices, out_replacements]
RECURSIVE ExpandCached(_, _, _, _, _)
ExpandCached(self, ref, n, i, acc) ==
  IF i >= n THEN acc
  ELSE LET out_key == LookupKey(ref, i)
           hit == out_key \in DOMAIN acc.st.out_lookup
           out_index == IF hit THEN acc.st.out_lookup[out_key]
                        ELSE acc.st.out_counter
           st2 == IF hit THEN acc.st
                  ELSE [acc.st EXCEPT
                          !.out_counter = @ + 1,
                          !.out_lookup = Put(@, out_key, out_index)]
       IN ExpandCached(self, ref, n, i + 1,
            [st |-> st2,
             is_new |-> acc.is_new /\ ~hit,
             out_indices |-> Append(acc.out_indices, out_index),
             out_replacements |->
               Append(acc.out_replacements, NumericRepl(self, out_index))])

\* CachedNumericRepl without its cache: every match takes new out numbers
UncachedNumericRepl(self, st, value, key, ref) ==
  LET first == st.out_counter IN
  IF self.expand_tuples /\ IsTuple(value)
  THEN IF value.v = <<>>
       THEN Replaced(st, <<Lit("(NULL)")>>)
       ELSE Replaced(
              [st EXCEPT
                 !.out_counter = @ + Len(value.v),
                 !.param_conversions =
                   Append(@, Conv(TRUE, ref,
                                  [i \in 1..Len(value.v) |-> first + i - 1]))],
              Paren([i \in 1..Len(value.v) |-> NumericRepl(self, first + i - 1)]))
  ELSE Replaced(
         [st EXCEPT
            !.out_counter = @ + 1,
            !.param_conversions = Append(@, Conv(FALSE, ref, <<first>>))],
         <<NumericRepl(self, first)>>)

\* the tail of NamedToNumeric and NumericToNumeric callbacks: out numbers
\* are cached by reference in out_lookup
CachedNumericRepl(self, st, value, key, ref) ==
  IF self.expand_tuples /\ IsTuple(value)
  THEN IF value.v = <<>>
       THEN Replaced(st, <<Lit("(NULL)")>>)
       ELSE LET acc == ExpandCached(self, key, Len(value.v), 0,
                         [st |-> st, is_new |-> TRUE, out_indices |-> <<>>,
                          out_replacements |-> <<>>])
            IN Replaced(
                 IF acc.is_new
                 THEN [acc.st EXCEPT !.param_conversions =
                         Append(@, Conv(TRUE, ref, acc.out_indices))]
                 ELSE acc.st,
                 Paren(acc.out_replacements))
  ELSE LET out_key == LookupKey(key, -1) IN
       IF out_key \in DOMAIN st.out_lookup
       THEN Replaced(st, <<NumericRepl(self, st.out_lookup[out_key])>>)
       ELSE LET out_index == st.out_counter IN
            Replaced(
              [st EXCEPT
                 !.out_counter = @ + 1,
                 !.out_lookup = Put(@, out_key, out_index),
                 !.param_conversions =
                   Append(@, Conv(FALSE, ref, <<out_index>>))],
              <<NumericRepl(self, out_index)>>)

\* NamedToNamed_regex_replace naming the out-parameter after the occurrence
NamedToNamed_PerOccurrence(self, in_params, st, match) ==
  IF match.t = "out_percent" THEN Replaced(st, PercentRepl)
  ELSE IF match.t = "escape" THEN Replaced(st, EscapeRepl(self, match))
  ELSE LET in_name == match.name
           got == GetItem(in_params, in_name)
           out_name == in_name \o ToString(Len(st.param_conversions))
       IN IF ~got.ok THEN Failed(st, got.err)
          ELSE ToNamedRepl(self, st, got.v, in_name, out_name,
                           NamedSubNames(in_name, got.v))

\* NamedToNamedConverter.__regex_replace
NamedToNamed_regex_replace(self, in_params, st, match) ==
  IF match.t = "out_percent" THEN Replaced(st, PercentRepl)
  ELSE IF match.t = "escape" THEN Replaced(st, EscapeRepl(self, match))
  ELSE LET got == NamedItem(self, in_params, match) IN
       IF ~got.ok THEN Failed(st, got.err)
       ELSE ToNamedRepl(self, st, got.v, got.in_name_param, got.in_name,
                        NamedSubNames(got.in_name, got.v))

\* NamedToNumericConverter.__regex_replace
NamedToNumeric_regex_replace(self, in_params, st, match) ==
  IF match.t = "escape" THEN Replaced(st, EscapeRepl(self, match))
  ELSE LET got == NamedItem(self, in_params, match) IN
       IF ~got.ok THEN Failed(st, got.err)
       ELSE CachedNumericRepl(self, st, got.v, got.in_name, got.in_name_param)

\* NamedToOrdinalConverter.__regex_replace
NamedToOrdinal_regex_replace(self, in_params, st, match) ==
  IF match.t = "out_percent" THEN Replaced(st, PercentRepl)
  ELSE IF match.t = "escape" THEN Replaced(st, EscapeRepl(self, match))
  ELSE LET got == NamedItem(self, in_params, match) IN
       IF ~got.ok THEN Failed(st, got.err)
       ELSE ToOrdinalRepl(self, st, got.v, got.in_name_param)

\* NumericToNamedConverter.__regex_replace
NumericToNamed_regex_replace(self, in_params, st, match) ==
  IF match.t = "out_percent" THEN Replaced(st, PercentRepl)
  ELSE IF match.t = "escape" THEN Replaced(st, EscapeRepl(self, match))
  ELSE LET in_index == match.num - NumericStart
           got == GetItem(in_params, in_index)
       IN IF ~got.ok THEN Failed(st, got.err)
          ELSE ToNamedRepl(self, st, got.v, in_index,
                           "_" \o match.name,
                           IndexSubNames(match.name, got.v))

\* NumericToNumeric_regex_replace numbering the out-parameters by the in number
NumericToNumeric_ByInNumber(self, in_params, st, match) ==
  LET in_index == match.num - NumericStart
      got == GetItem(in_params, in_index)
  IN IF in_index < 0 \/ ~got.ok THEN Failed(st, "IndexError")
     ELSE Replaced(
            [st EXCEPT !.param_conversions =
               Append(@, Conv(FALSE, in_index, <<in_index>>))],
            <<NumericRepl(self, in_index)>>)

\* NumericToNumericConverter.__regex_replace
NumericToNumeric_regex_replace(self, in_params, st, match) ==
  IF match.t = "escape" THEN Replaced(st, EscapeRepl(self, match))
  ELSE LET in_index == match.num - NumericStart
           got == GetItem(in_params, in_index)
       IN IF ~got.ok THEN Failed(st, got.err)
          ELSE CachedNumericRepl(self, st, got.v, in_index, in_index)

\* NumericToOrdinalConverter.__regex_replace
NumericToOrdinal_regex_replace(self, in_params, st, match) ==
  IF match.t = "out_percent" THEN Replaced(st, PercentRepl)
  ELSE IF match.t = "escape" THEN Replaced(st, EscapeRepl(self, match))
  ELSE LET in_index == match.num - NumericStart
           got == GetItem(in_params, in_index)
       IN IF ~got.ok THEN Failed(st, got.err)
          ELSE ToOrdinalRepl(self, st, got.v, in_index)

\* OrdinalToNamedConverter.__regex_replace
OrdinalToNamed_regex_replace(self, in_params, st, match) ==
  IF match.t = "out_percent" THEN Replaced(st, PercentRepl)
  ELSE IF match.t = "escape" THEN Replaced(st, EscapeRepl(self, match))
  ELSE LET in_index == st.in_counter
           st1 == [st EXCEPT !.in_counter = @ + 1]
           got == GetItem(in_params, in_index)
       IN IF ~got.ok THEN Failed(st1, got.err)
          ELSE ToNamedRepl(self, st1, got.v, in_index,
                           "_" \o ToString(in_index),
                           IndexSubNames(ToString(in_index), got.v))

\* OrdinalToNumericConverter.__regex_replace: every match takes new out
\* numbers, nothing is cached
OrdinalToNumeric_regex_replace(self, in_params, st, match) ==
  IF match.t = "escape" THEN Replaced(st, EscapeRepl(self, match))
  ELSE LET in_index == st.in_counter
           st1 == [st EXCEPT !.in_counter = @ + 1]
           got == GetItem(in_params, in_index)
       IN IF ~got.ok THEN Failed(st1, got.err)
          ELSE LET value == got.v
                   first == st1.out_counter
               IN IF self.expand_tuples /\ IsTuple(value)
                  THEN IF value.v = <<>>
                       THEN Replaced(st1, <<Lit("(NULL)")>>)
                       ELSE LET out_indices ==
                                  [i \in 1..Len(value.v) |-> first + i - 1]
                            IN Replaced(
                                 [st1 EXCEPT
                                    !.out_counter = @ + Len(value.v),
                                    !.param_conversions =
                                      Append(@, Conv(TRUE, in_index, out_indices))],
                                 Paren([i \in 1..Len(value.v) |->
                                          NumericRepl(self, out_indices[i])]))
                  ELSE Replaced(
                         [st1 EXCEPT
                            !.out_counter = @ + 1,
                            !.param_conversions =
                              Append(@, Conv(FALSE, in_index, <<first>>))],
                         <<NumericRepl(self, first)>>)

\* OrdinalToOrdinalConverter.__regex_replace
OrdinalToOrdinal_regex_replace(self, in_params, st, match) ==
  IF match.t = "out_percent" THEN Replaced(st, PercentRepl)
  ELSE IF match.t = "escape" THEN Replaced(st, EscapeRepl(self, match))
  ELSE LET in_index == st.in_counter
           st1 == [st EXCEPT !.in_counter = @ + 1]
           got == GetItem(in_params, in_index)
       IN IF ~got.ok THEN Failed(st1, got.err)
          ELSE ToOrdinalRepl(self, st1, got.v, in_index)

\* the callback re.sub() is given: partial(self.__regex_replace, ...)
regex_replace(self, in_params, st, match) ==
  LET class == ConverterClass(self) IN
  CASE class = <<"named", "named">> ->
         NamedToNamed_regex_replace(self, in_params, st, match)
    [] class = <<"named", "numeric">> ->
         NamedToNumeric_regex_replace(self, in_params, st, match)
    [] class = <<"named", "ordinal">> ->
         NamedToOrdinal_regex_replace(self, in_params, st, match)
    [] class = <<"numeric", "named">> ->
         NumericToNamed_regex_replace(self, in_params, st, match)
    [] class = <<"numeric", "numeric">> ->
         NumericToNumeric_regex_replace(self, in_params, st, match)
    [] class = <<"numeric", "ordinal">> ->
         NumericToOrdinal_regex_replace(self, in_params, st, match)
    [] class = <<"ordinal", "named">> ->
         OrdinalToNamed_regex_replace(self, in_params, st, match)
    [] class = <<"ordinal", "numeric">> ->
         OrdinalToNumeric_regex_replace(self, in_params, st, match)
    [] class = <<"ordinal", "ordinal">> ->
         OrdinalToOrdinal_regex_replace(self, in_params, st, match)

\* ------------------------------------------------------ convert parameters
Min(a, b) == IF a < b THEN a ELSE b

\* for sub_name, sub_value in zip(out_names, values): out_params[sub_name] =
\* sub_value (on a dict)
RECURSIVE ZipIntoDict(_, _, _, _)
ZipIntoDict(out_params, out_names, values, j) ==
  IF j > Min(Len(out_names), Len(values)) THEN out_params
  ELSE ZipIntoDict(Put(out_params, out_names[j], Scalar(values[j])),
                   out_names, values, j + 1)

\* for sub_index, sub_value in zip(out_indices, values):
\* out_params[sub_index] = sub_value (on a list: an index past the end raises)
RECURSIVE ZipIntoList(_, _, _, _)
ZipIntoList(out_params, out_indices, values, j) ==
  IF j > Min(Len(out_indices), Len(values)) THEN Ok(out_params)
  ELSE IF out_indices[j] >= Len(out_params) THEN Raise("IndexError")
  ELSE ZipIntoList([out_params EXCEPT ![out_indices[j] + 1] = Scalar(values[j])],
                   out_indices, values, j + 1)

\* for sub_value in values: out_params.append(sub_value)
AppendAll(out_params, values) ==
  out_params \o [j \in 1..Len(values) |-> Scalar(values[j])]

\* the checks convert_many makes on the value of a tuple conversion
TupleCheck(values, expected) ==
  IF ~IsTuple(values) THEN "TypeError"
  ELSE IF Len(values.v) # expected THEN "ValueError"
  ELSE "none"

\* the loop `for expand_tuple, in_ref, out in param_conversions` of the
\* __convert_params and __convert_many_params methods with a named out-style;
\* many is TRUE in __convert_many_params, which checks each tuple
RECURSIVE ToNamedLoop(_, _, _, _, _)
ToNamedLoop(in_params, param_conversions, many, k, out_params) ==
  IF k > Len(param_conversions) THEN Ok(out_params)
  ELSE LET c == param_conversions[k]
           got == GetItem(in_params, c.in)
       IN IF ~got.ok THEN Raise(got.err)
          ELSE IF c.expand
          THEN IF many /\ TupleCheck(got.v, Len(c.out)) # "none"
               THEN Raise(TupleCheck(got.v, Len(c.out)))
               ELSE ToNamedLoop(in_params, param_conversions, many, k + 1,
                      ZipIntoDict(out_params, c.out, got.v.v, 1))
          ELSE ToNamedLoop(in_params, param_conversions, many, k + 1,
                 Put(out_params, c.out[1], got.v))

\* the same loop with a numeric out-style
RECURSIVE ToNumericLoop(_, _, _, _, _)
ToNumericLoop(in_params, param_conversions, many, k, out_params) ==
  IF k > Len(param_conversions) THEN Ok(out_params)
  ELSE LET c == param_conversions[k]
           got == GetItem(in_params, c.in)
       IN IF ~got.ok THEN Raise(got.err)
          ELSE IF c.expand
          THEN IF many /\ TupleCheck(got.v, Len(c.out)) # "none"
               THEN Raise(TupleCheck(got.v, Len(c.out)))
               ELSE LET zipped == ZipIntoList(out_params, c.out, got.v.v, 1)
                    IN IF ~zipped.ok THEN Raise(zipped.err)
                       ELSE ToNumericLoop(in_params, param_conversions, many,
                                          k + 1, zipped.v)
          ELSE IF c.out[1] >= Len(out_params) THEN Raise("IndexError")
          ELSE ToNumericLoop(in_params, param_conversions, many, k + 1,
                 [out_params EXCEPT ![c.out[1] + 1] = got.v])

\* the same loop with an ordinal out-style
RECURSIVE ToOrdinalLoop(_, _, _, _, _)
ToOrdinalLoop(in_params, param_conversions, many, k, out_params) ==
  IF k > Len(param_conversions) THEN Ok(out_params)
  ELSE LET c == param_conversions[k]
           got == GetItem(in_params, c.in)
       IN IF ~got.ok THEN Raise(got.err)
          ELSE IF c.expand
          THEN IF many /\ TupleCheck(got.v, c.out[1]) # "none"
               THEN Raise(TupleCheck(got.v, c.out[1]))
               ELSE ToOrdinalLoop(in_params, param_conversions, many, k + 1,
                      AppendAll(out_params, got.v.v))
          ELSE ToOrdinalLoop(in_params, param_conversions, many, k + 1,
                 Append(out_params, got.v))

\* "Get row size": size = last out index of the last conversion + 1;
\* param_conversions[-1] raises IndexError on an empty list
RowSize(param_conversions) ==
  IF param_conversions = <<>> THEN Raise("IndexError")
  ELSE LET last_conv == param_conversions[Len(param_conversions)]
       IN Ok(last_conv.out[Len(last_conv.out)] + 1)

\* the rows of one parameter set, by out-style kind; many tells
\* __convert_many_params from __convert_params
ConvertRow(self, in_params, param_conversions, many) ==
  LET out_kind == StyleKind(self.out_style) IN
  CASE out_kind = "named" ->
         ToNamedLoop(in_params, param_conversions, many, 1, EmptyDict)
    [] out_kind = "numeric" ->
         LET size == RowSize(param_conversions) IN
         IF ~size.ok THEN Raise(size.err)
         ELSE ToNumericLoop(in_params, param_conversions, many, 1,
                            [j \in 1..size.v |-> None])
    [] out_kind = "ordinal" ->
         ToOrdinalLoop(in_params, param_conversions, many, 1, <<>>)

\* convert_params leaving out the last conversion recorded
convert_params_but_last(self, in_params, param_conversions) ==
  ConvertRow(self, in_params,
             SubSeq(param_conversions, 1, Len(param_conversions) - 1), FALSE)

\* __convert_params of the nine converters
convert_params(self, in_params, param_conversions) ==
  ConvertRow(self, in_params, param_conversions, FALSE)

\* CheckParams taking a parameter set of any shape
CheckParamsOfAnyShape(self, p) ==
  IF StyleKind(self.in_style) = "named" \/ ~is_mapping(p) THEN Ok(p)
  ELSE Ok(IF StyleKind(self.in_style) = "numeric"
          THEN Numeric_mapping_as_sequence(p)
          ELSE Ordinal_mapping_as_sequence(p))

\* the type check convert and convert_many make on a parameter set, and the
\* parameter set the callbacks then read
CheckParams(self, p) ==
  LET in_kind == StyleKind(self.in_style) IN
  IF in_kind = "named"
  THEN IF is_mapping(p) THEN Ok(p) ELSE Raise("TypeError")
  ELSE IF is_sequence(p) THEN Ok(p)
  ELSE IF is_mapping(p)
  THEN Ok(IF in_kind = "numeric" THEN Numeric_mapping_as_sequence(p)
          ELSE Ordinal_mapping_as_sequence(p))
  ELSE Raise("TypeError")

\* convert_many_params_row converting the first set again for every set
convert_first_params_row(self, first_params, many_params, param_conversions, i) ==
  ConvertRow(self, first_params, param_conversions, TRUE)

\* the body of the loop `for i, in_params in enumerate(many_in_params)` of
\* the nine __convert_many_params, for the set at index i (0-based); the
\* first set was checked and normalised by convert_many
convert_many_params_row(self, first_params, many_params, param_conversions, i) ==
  LET checked == IF i = 0 THEN Ok(first_params)
                 ELSE CheckParams(self, many_params[i + 1])
  IN IF ~checked.ok THEN Raise(checked.err)
     ELSE ConvertRow(self, checked.v, param_conversions, TRUE)

\* -------------------------------------------------------------------- text
\* a str is the sequence of its characters, a bytes the sequence of its byte
\* values
Str(chars) == [type |-> "str", v |-> chars]
Bytes(values) == [type |-> "bytes", v |-> values]

\* list(s): the characters of a string
Chars(s) == [i \in 1..Len(s) |-> SubSeq(s, i, i)]

\* the characters of a sequence of atoms
RECURSIVE AtomsChars(_)
AtomsChars(atoms) ==
  IF atoms = <<>> THEN <<>>
  ELSE Chars(Head(atoms).s) \o AtomsChars(Tail(atoms))

\* the characters of a rewritten query: a character outside a match is
\* copied, a match gives the characters of its replacement
RECURSIVE OutChars(_, _)
OutChars(pieces, replaced) ==
  IF replaced = <<>> THEN <<>>
  ELSE (IF Head(pieces).t = "text" THEN <<Head(pieces).s>>
        ELSE AtomsChars(Head(replaced)))
       \o OutChars(Tail(pieces), Tail(replaced))

\* bytes.decode("latin1") and str.encode("latin1"), byte by byte: the code
\* point of a character is the value of its byte.  The characters of the
\* bytes the queries are made of are written as such; any other character is
\* written by its code point
chr(b) ==
  CASE b = 9 -> "\t"
    [] b = 10 -> "\n"
    [] b = 13 -> "\r"
    [] b = 32 -> " "
    [] b = 36 -> "$"
    [] b = 37 -> "%"
    [] b = 40 -> "("
    [] b = 41 -> ")"
    [] b = 42 -> "*"
    [] b = 45 -> "-"
    [] b = 47 -> "/"
    [] b \in 48..57 -> ToString(b - 48)
    [] b = 58 -> ":"
    [] b = 63 -> "?"
    [] b = 95 -> "_"
    [] b = 97 -> "a"
    [] b = 115 -> "s"
    [] b = 120 -> "x"
    [] OTHER -> "\\x" \o ToString(b)

ByteValues == 0..255

\* bytes.decode("ascii", errors="replace")
DecodeReplacing(values) ==
  [i \in 1..Len(values) |-> IF values[i] < 128 THEN chr(values[i]) ELSE "?"]

decode(values) == [i \in 1..Len(values) |-> chr(values[i])]

\* a character above U+00FF has no byte: UnicodeEncodeError
encode(chars) ==
  IF \A i \in 1..Len(chars) : \E b \in ByteValues : chr(b) = chars[i]
  THEN Ok([i \in 1..Len(chars) |-> CHOOSE b \in ByteValues : chr(b) = chars[i]])
  ELSE Raise("UnicodeEncodeError")

\* the character classes of the regular expressions.  \w also matches the
\* letters above U+007F, which no query of the model contains
AsciiLetters ==
  {"a", "b", "c", "d", "e", "f", "g", "h", "i", "j", "k", "l", "m", "n", "o",
   "p", "q", "r", "s", "t", "u", "v", "w", "x", "y", "z", "A", "B", "C", "D",
   "E", "F", "G", "H", "I", "J", "K", "L", "M", "N", "O", "P", "Q", "R", "S",
   "T", "U", "V", "W", "X", "Y", "Z"}
IsDigitChar(c) == \E d \in 0..9 : ToString(d) = c
IsNameStart(c) == c \in AsciiLetters \cup {"_"}
IsWordChar(c) == IsNameStart(c) \/ IsDigitChar(c)

\* the end of the longest run of \w, and of \d, that starts at i; i if none
RECURSIVE WordRun(_, _)
WordRun(text, i) ==
  IF i <= Len(text) /\ IsWordChar(text[i]) THEN WordRun(text, i + 1) ELSE i

RECURSIVE DigitRun(_, _)
DigitRun(text, i) ==
  IF i <= Len(text) /\ IsDigitChar(text[i]) THEN DigitRun(text, i + 1) ELSE i

\* int(param) of a run of digits
RECURSIVE IntOfDigits(_)
IntOfDigits(digits) ==
  IF digits = <<>> THEN 0
  ELSE 10 * IntOfDigits(SubSeq(digits, 1, Len(digits) - 1))
       + (CHOOSE d \in 0..9 : ToString(d) = digits[Len(digits)])

\* text[i], or "" past either end
CharAt(text, i) == IF i >= 1 /\ i <= Len(text) THEN text[i] ELSE ""

\* a match of a regular expression at i: the piece, and where it ends
Match(piece, end) == [found |-> TRUE, piece |-> piece, end |-> end]
NoMatch == [found |-> FALSE, piece |-> TextPiece(""), end |-> 0]

\* Style.escape_regex: the escape character, then the character that begins
\* a marker of the style
EscapedChar(name) ==
  CASE name \in {"format", "pyformat"} -> "%"
    [] name \in {"named", "numeric"} -> ":"
    [] name \in {"named_dollar", "numeric_dollar"} -> "$"
    [] name = "qmark" -> "?"
    [] IsDialect(name) -> DIALECT_STYLES[name].lead

\* the param_regex of a dialect style after its lookbehind, matched at i:
\* the lead and a name, as in the style "named"; where the style has quoted
\* identifiers, the name may be written between two double quotes
DialectPattern(name, text, i) ==
  LET quoted == param_quotes(name) /\ CharAt(text, i + 1) = "\""
      after == IF quoted THEN i + 2 ELSE i + 1
      end == WordRun(text, after)
  IN IF ~IsNameStart(CharAt(text, after)) THEN NoMatch
     ELSE IF ~quoted
     THEN Match(NamedParam(ConcatChars(SubSeq(text, after, end - 1))), end)
     ELSE IF CharAt(text, end) = "\""
     THEN Match(QuotedParam(ConcatChars(SubSeq(text, after, end - 1))),
                end + 1)
     ELSE NoMatch

\* Style.param_regex after its lookbehind, matched at i
ParamPattern(name, text, i) ==
  LET lead == EscapedChar(name)
      after == IF name = "pyformat" THEN i + 2 ELSE i + 1
  IN
  IF CharAt(text, i) # lead THEN NoMatch
  ELSE CASE name \in {"named", "named_dollar"} ->
              IF IsNameStart(CharAt(text, after))
              THEN LET end == WordRun(text, after) IN
                   Match(NamedParam(ConcatChars(SubSeq(text, after, end - 1))),
                         end)
              ELSE NoMatch
         [] name = "pyformat" ->
              IF CharAt(text, i + 1) = "(" /\ IsNameStart(CharAt(text, after))
              THEN LET end == WordRun(text, after) IN
                   IF CharAt(text, end) = ")" /\ CharAt(text, end + 1) = "s"
                   THEN Match(NamedParam(ConcatChars(SubSeq(text, after,
                                                            end - 1))),
                              end + 2)
                   ELSE NoMatch
              ELSE NoMatch
         [] name \in {"numeric", "numeric_dollar"} ->
              IF IsDigitChar(CharAt(text, after))
              THEN LET end == DigitRun(text, after) IN
                   Match(NumericMatch(ConcatChars(SubSeq(text, after, end - 1)),
                                      IntOfDigits(SubSeq(text, after,
                                                         end - 1))),
                         end)
              ELSE NoMatch
         [] name = "format" ->
              IF CharAt(text, after) = "s" THEN Match(OrdinalParam, i + 2)
              ELSE NoMatch
         [] name = "qmark" ->
              IF CharAt(text, after) # "?" THEN Match(OrdinalParam, i + 1)
              ELSE NoMatch
         [] IsDialect(name) -> DialectPattern(name, text, i)

\* a param_regex without its lookbehind
ParamMatchAfterLead(name, text, i) == ParamPattern(name, text, i)

\* Style.param_regex matched at i: the lookbehind "(?<!<lead>)", then the
\* pattern
ParamMatch(name, text, i) ==
  IF CharAt(text, i - 1) = EscapedChar(name) THEN NoMatch
  ELSE ParamPattern(name, text, i)

\* SQLParams.__create_in_regex: the alternatives of the in-regex, in order
create_in_regex(in_style, out_style, escape_char) ==
  [out_percent |-> StyleEscapeChar(in_style) # "%"
                   /\ StyleEscapeChar(out_style) = "%",
   escape |-> escape_char,
   param |-> in_style]

\* an in-regex without the alternative of the escape sequence
RegexMatchNoEscape(in_regex, text, i) ==
  IF in_regex.out_percent /\ text[i] = "%" THEN Match(OutPercentPiece, i + 1)
  ELSE ParamMatch(in_regex.param, text, i)

\* the in-regex matched at i: the first alternative that matches
RegexMatch(in_regex, text, i) ==
  IF in_regex.out_percent /\ text[i] = "%" THEN Match(OutPercentPiece, i + 1)
  ELSE IF /\ in_regex.escape # ""
          /\ text[i] = in_regex.escape
          /\ CharAt(text, i + 1) = EscapedChar(in_regex.param)
  THEN Match(EscapePiece(SubSeq(text, i, i + 1)), i + 2)
  ELSE ParamMatch(in_regex.param, text, i)

\* the pieces re.sub() walks over from i on: the leftmost matches, none
\* overlapping another, and the characters between them
RECURSIVE PiecesFrom(_, _, _)
PiecesFrom(in_regex, text, i) ==
  IF i > Len(text) THEN <<>>
  ELSE LET m == RegexMatch(in_regex, text, i) IN
       IF m.found THEN <<m.piece>> \o PiecesFrom(in_regex, text, m.end)
       ELSE <<TextPiece(text[i])>> \o PiecesFrom(in_regex, text, i + 1)

\* ---------------------------------------------------------------- comments
\* a comment style: the marker of a single-line comment, or the two markers
\* of a multi-line comment
SingleLine(comment) == [start |-> Chars(comment), end |-> <<>>]
MultiLine(start_comment, end_comment) ==
  [start |-> Chars(start_comment), end |-> Chars(end_comment)]

DEFAULT_COMMENTS == <<MultiLine("/*", "*/"), SingleLine("--")>>

\* text[i:].startswith(word)
StartsWith(text, i, word) ==
  /\ i + Len(word) - 1 <= Len(text)
  /\ \A k \in 1..Len(word) : text[i + k - 1] = word[k]

\* "^" with re.M: at the start of the text or after a newline
AtLineStart(text, i) == i = 1 \/ text[i - 1] = "\n"

\* the end of "[ \t]*" from i
RECURSIVE SkipBlanks(_, _)
SkipBlanks(text, i) ==
  IF CharAt(text, i) \in {" ", "\t"} THEN SkipBlanks(text, i + 1) ELSE i

\* the end of ".*" from i without re.DOTALL: the end of the line
RECURSIVE EndOfLine(_, _)
EndOfLine(text, i) ==
  IF i > Len(text) \/ text[i] = "\n" THEN i ELSE EndOfLine(text, i + 1)

\* the end of ".*{end}" from i with re.DOTALL: past the last end marker; 0
\* if there is none
RECURSIVE PastLast(_, _, _)
PastLast(text, i, end_comment) ==
  IF i > Len(text) THEN 0
  ELSE LET later == PastLast(text, i + 1, end_comment) IN
       IF later # 0 THEN later
       ELSE IF StartsWith(text, i, end_comment) THEN i + Len(end_comment)
       ELSE 0

\* the end of ".*?{end}" from i with re.DOTALL: past the nearest end marker;
\* 0 if there is none
RECURSIVE PastNearest(_, _, _)
PastNearest(text, i, end_comment) ==
  IF i > Len(text) THEN 0
  ELSE IF StartsWith(text, i, end_comment) THEN i + Len(end_comment)
  ELSE PastNearest(text, i + 1, end_comment)

\* the end of "(?:\n|\r\n)?" from i
PastNewline(text, i) ==
  IF CharAt(text, i) = "\n" THEN i + 1
  ELSE IF CharAt(text, i) = "\r" /\ CharAt(text, i + 1) = "\n" THEN i + 2
  ELSE i

\* CommentMatch without the "^"
CommentMatchAnywhere(comment_style, text, i) ==
  LET marker == SkipBlanks(text, i)
      body == marker + Len(comment_style.start)
  IN
  IF ~StartsWith(text, marker, comment_style.start) THEN 0
  ELSE IF comment_style.end = <<>>
  THEN PastNewline(text, EndOfLine(text, body))
  ELSE LET past == PastNearest(text, body, comment_style.end) IN
       IF past = 0 THEN 0 ELSE PastNewline(text, past)

\* a regular expression of __create_strip_comment_regexes matched at i:
\* where the match ends, 0 if it does not match
CommentMatch(comment_style, text, i) ==
  LET marker == SkipBlanks(text, i)
      body == marker + Len(comment_style.start)
  IN
  IF ~AtLineStart(text, i) \/ ~StartsWith(text, marker, comment_style.start)
  THEN 0
  ELSE IF comment_style.end = <<>>
  THEN PastNewline(text, EndOfLine(text, body))
  ELSE LET past == PastNearest(text, body, comment_style.end) IN
       IF past = 0 THEN 0 ELSE PastNewline(text, past)

\* comment_regex.sub("", sql): every match removed, from the left.  The
\* places of the characters that are in no match, from i on
RECURSIVE KeptFrom(_, _, _)
KeptFrom(comment_style, text, i) ==
  IF i > Len(text) THEN <<>>
  ELSE LET end == CommentMatch(comment_style, text, i) IN
       IF end # 0 THEN KeptFrom(comment_style, text, end)
       ELSE <<i>> \o KeptFrom(comment_style, text, i + 1)

StripFrom(comment_style, text, i) ==
  LET kept == KeptFrom(comment_style, text, i) IN
  [k \in 1..Len(kept) |-> text[kept[k]]]

\* SQLParams.__strip_comments_from_sql: one substitution per comment style,
\* in the order given
RECURSIVE strip_comments_from_sql(_, _)
strip_comments_from_sql(strip_comment_regexes, text) ==
  IF strip_comment_regexes = <<>> THEN text
  ELSE strip_comments_from_sql(Tail(strip_comment_regexes),
                               StripFrom(Head(strip_comment_regexes), text, 1))

\* -------------------------------------------------------------- SQLParams
\* SQLParams.__init__ expanding tuples unless told not to
SQLParamsExpanding(in_style, out_style, escape_char, expand_tuples, strip_comments) ==
  LET use_char == IF escape_char = "True" THEN StyleEscapeChar(in_style)
                  ELSE IF escape_char \in {"False", ""} THEN ""
                  ELSE escape_char
      expand == expand_tuples # "False"
  IN [in_style |-> in_style, out_style |-> out_style,
      escape_char |-> use_char, expand_tuples |-> expand,
      converter |-> Converter(in_style, out_style, use_char, expand),
      in_regex |-> create_in_regex(in_style, out_style, use_char),
      strip_comment_regexes |-> strip_comments]

\* SQLParams.__init__: escape_char is "True", "False" or a character;
\* expand_tuples is "None", "True" or "False"; strip_comments is the
\* sequence of comment styles to strip, none by default.  The in-regex is
\* the one the converter is created with
SQLParams(in_style, out_style, escape_char, expand_tuples, strip_comments) ==
  LET use_char == IF escape_char = "True" THEN StyleEscapeChar(in_style)
                  ELSE IF escape_char \in {"False", ""} THEN ""
                  ELSE escape_char
      expand == IF expand_tuples = "None"
                THEN StyleKind(out_style) # "named"
                ELSE expand_tuples = "True"
  IN [in_style |-> in_style, out_style |-> out_style,
      escape_char |-> use_char, expand_tuples |-> expand,
      converter |-> Converter(in_style, out_style, use_char, expand),
      in_regex |-> create_in_regex(in_style, out_style, use_char),
      strip_comment_regexes |-> strip_comments]

\* strip_comments=True and strip_comments=False
StripComments(flag) == IF flag THEN DEFAULT_COMMENTS ELSE <<>>

\* the keyword arguments of SQLParams(), and the instance they give
Kwargs(escape_char, expand_tuples, strip_comments) ==
  [escape_char |-> escape_char, expand_tuples |-> expand_tuples,
   strip_comments |-> strip_comments]

New(in_style, out_style, kw) ==
  SQLParams(in_style, out_style, kw.escape_char, kw.expand_tuples,
            StripComments(kw.strip_comments))

\* ------------------------------------------------------------------- state
VARIABLES
  kwargs,             \* the keyword arguments the instance was created with
  instance,           \* the SQLParams instance
  query,              \* the query given to the instance, a str or a bytes
  result,             \* the query the instance returns
  self,               \* the converter of the SQLParams instance
  call,               \* "format" or "formatmany"
  sql,                \* the query given, as pieces
  params,             \* format: the parameter set given
  many_params,        \* formatmany: the parameter sets given
  pc,                 \* where the call is
  pos,                \* re.sub: pieces already walked over
  in_params,          \* the (first) parameter set the callbacks read
  param_conversions,  \* the conversions recorded by the callbacks
  in_counter,         \* itertools.count() of ordinal in-parameters
  out_counter,        \* itertools.count() of numeric out-parameters
  out_lookup,         \* out numbers cached by reference
  out_sql,            \* the replacement of each piece walked over
  row,                \* __convert_many_params: sets already converted
  out_params,         \* the out-parameters built
  error,              \* the exception raised, "none" if none
  other,              \* the call of the instance that is not running now
  calls               \* the calls the instance was given so far

vars == <<kwargs, instance, query, result, self, call, sql, params, many_params, pc,
          pos, in_params,
          param_conversions, in_counter, out_counter, out_lookup, out_sql,
          row, out_params, error, other, calls>>

args == <<self, call, sql, params, many_params>>

\* what the instance was given, and the calls made on it
given == <<kwargs, instance, query, other, calls>>

\* no query: the call is that of the converter, with the query in pieces
NoQuery == [type |-> "none", v |-> <<>>]

Scan == [param_conversions |-> param_conversions, in_counter |-> in_counter,
         out_counter |-> out_counter, out_lookup |-> out_lookup]

NoParams == [shape |-> "other", seq |-> <<>>, map |-> EmptyDict]

\* nothing scanned, nothing converted, nothing returned
Fresh ==
  /\ pos = 0
  /\ in_params = NoParams
  /\ param_conversions = <<>>
  /\ in_counter = 0
  /\ out_counter = 0
  /\ out_lookup = EmptyDict
  /\ out_sql = <<>>
  /\ row = 0
  /\ out_params = <<>>
  /\ error = "none"
  /\ result = NoQuery

\* the frame of the thread that has not called the instance
Idle ==
  [query |-> NoQuery, result |-> NoQuery, call |-> "none", sql |-> <<>>,
   params |-> NoParams, many_params |-> <<>>, pc |-> "idle", pos |-> 0,
   in_params |-> NoParams, param_conversions |-> <<>>, in_counter |-> 0,
   out_counter |-> 0, out_lookup |-> EmptyDict, out_sql |-> <<>>, row |-> 0,
   out_params |-> <<>>, error |-> "none"]

\* the first call of the instance, no other thread calling it
Alone == other = Idle /\ calls = 1

\* the state before a call of the converter
Start == pc = "start" /\ query = NoQuery /\ Fresh /\ Alone

\* the locals convert() and convert_many() allocate before the call of
\* re.sub(), and those re.sub() and __convert_many_params start with
NewLocals ==
  /\ param_conversions' = <<>>
  /\ in_counter' = 0
  /\ out_counter' = 0
  /\ out_lookup' = EmptyDict
  /\ pos' = 0
  /\ out_sql' = <<>>
  /\ row' = 0

\* an exception leaves the call: nothing is returned
Raised(e) ==
  /\ pc' = "raised"
  /\ error' = e
  /\ out_params' = <<>>

\* where a call goes once re.sub() has walked over the whole query
AfterSub == IF call = "format" THEN "convert_params" ELSE "convert_many_params"

\* convert() scanning with the plan, the counters and the cache that the
\* call before it left
convert_keeping_locals ==
  /\ pc = "start"
  /\ call = "format"
  /\ LET checked == CheckParams(self, params) IN
     IF ~checked.ok
     THEN /\ Raised(checked.err)
          /\ UNCHANGED <<in_params>>
     ELSE /\ in_params' = checked.v
          /\ pc' = IF sql = <<>> THEN AfterSub ELSE "sub"
          /\ out_params' = <<>>
          /\ UNCHANGED error
  /\ pos' = 0
  /\ out_sql' = <<>>
  /\ row' = 0
  /\ UNCHANGED <<given, result, args, param_conversions, in_counter,
                 out_counter, out_lookup>>

\* convert() of the nine converters, up to the call of re.sub()
convert ==
  /\ pc = "start"
  /\ call = "format"
  /\ LET checked == CheckParams(self, params) IN
     IF ~checked.ok
     THEN /\ Raised(checked.err)
          /\ UNCHANGED <<in_params>>
     ELSE /\ in_params' = checked.v
          /\ pc' = IF sql = <<>> THEN AfterSub ELSE "sub"
          /\ out_params' = <<>>
          /\ UNCHANGED error
  /\ NewLocals
  /\ UNCHANGED <<given, result, args>>

\* convert_many returning an empty list for no parameter sets
convert_many_of_none ==
  /\ pc = "start"
  /\ call = "formatmany"
  /\ IF many_params = <<>>
     THEN /\ pc' = "done"
          /\ UNCHANGED <<in_params, error, out_params>>
     ELSE LET checked == CheckParams(self, many_params[1]) IN
          IF ~checked.ok
          THEN /\ Raised(checked.err)
               /\ UNCHANGED <<in_params>>
          ELSE /\ in_params' = checked.v
               /\ pc' = IF sql = <<>> THEN AfterSub ELSE "sub"
               /\ out_params' = <<>>
               /\ UNCHANGED error
  /\ NewLocals
  /\ UNCHANGED <<given, result, args>>

\* convert_many taking the set the callbacks read from the end of many_params
convert_many_by_last ==
  /\ pc = "start"
  /\ call = "formatmany"
  /\ IF many_params = <<>>
     THEN /\ Raised("StopIteration")
          /\ UNCHANGED <<in_params>>
     ELSE LET checked == CheckParams(self, many_params[Len(many_params)]) IN
          IF ~checked.ok
          THEN /\ Raised(checked.err)
               /\ UNCHANGED <<in_params>>
          ELSE /\ in_params' = checked.v
               /\ pc' = IF sql = <<>> THEN AfterSub ELSE "sub"
               /\ out_params' = <<>>
               /\ UNCHANGED error
  /\ NewLocals
  /\ UNCHANGED <<given, result, args>>

\* convert_many() of the nine converters, up to the call of re.sub():
\* next(iter(many_params)) raises StopIteration on an empty iterable
convert_many ==
  /\ pc = "start"
  /\ call = "formatmany"
  /\ IF many_params = <<>>
     THEN /\ Raised("StopIteration")
          /\ UNCHANGED <<in_params>>
     ELSE LET checked == CheckParams(self, many_params[1]) IN
          IF ~checked.ok
          THEN /\ Raised(checked.err)
               /\ UNCHANGED <<in_params>>
          ELSE /\ in_params' = checked.v
               /\ pc' = IF sql = <<>> THEN AfterSub ELSE "sub"
               /\ out_params' = <<>>
               /\ UNCHANGED error
  /\ NewLocals
  /\ UNCHANGED <<given, result, args>>

\* one piece of self._in_regex.sub(callback, sql): text is copied, a match is
\* replaced by what the callback returns
SubPiece(conv, first_params, st, piece) ==
  IF piece.t = "text" THEN Replaced(st, <<Lit(piece.s)>>)
  ELSE regex_replace(conv, first_params, st, piece)

sub ==
  /\ pc = "sub"
  /\ pos < Len(sql)
  /\ LET r == SubPiece(self, in_params, Scan, sql[pos + 1]) IN
     /\ param_conversions' = r.st.param_conversions
     /\ in_counter' = r.st.in_counter
     /\ out_counter' = r.st.out_counter
     /\ out_lookup' = r.st.out_lookup
     /\ IF r.ok
        THEN /\ out_sql' = Append(out_sql, r.repl)
             /\ pos' = pos + 1
             /\ pc' = IF pos + 1 = Len(sql) THEN AfterSub ELSE "sub"
             /\ UNCHANGED <<error, out_params>>
        ELSE /\ Raised(r.err)
             /\ UNCHANGED <<out_sql, pos>>
  /\ UNCHANGED <<given, result, args, in_params, row>>

\* convert(): __convert_params, then return out_sql, out_params
convert_params_step ==
  /\ pc = "convert_params"
  /\ LET r == convert_params(self, in_params, param_conversions) IN
     IF r.ok
     THEN /\ out_params' = r.v
          /\ pc' = "done"
          /\ UNCHANGED error
     ELSE Raised(r.err)
  /\ UNCHANGED <<given, result, args, pos, in_params, param_conversions,
                 in_counter, out_counter, out_lookup, out_sql, row>>

\* convert_many(): one turn of the loop of __convert_many_params; after the
\* last set, return out_sql, many_out_params
convert_many_params_step ==
  /\ pc = "convert_many_params"
  /\ row < Len(many_params)
  /\ LET r == convert_many_params_row(self, in_params, many_params,
                                      param_conversions, row) IN
     IF r.ok
     THEN /\ out_params' = Append(out_params, r.v)
          /\ row' = row + 1
          /\ pc' = IF row + 1 = Len(many_params) THEN "done"
                   ELSE "convert_many_params"
          /\ UNCHANGED error
     ELSE /\ Raised(r.err)
          /\ UNCHANGED row
  /\ UNCHANGED <<given, result, args, pos, in_params, param_conversions,
                 in_counter, out_counter, out_lookup, out_sql>>

\* format() and formatmany() up to the call of the converter: the query is
\* decoded if it is a bytes, its comments are stripped, and the converter is
\* given the text, which re.sub() cuts into pieces
use_sql == IF query.type = "bytes" THEN decode(query.v) ELSE query.v

\* format() giving the converter the text with its comments
format_with_comments ==
  /\ pc = "format"
  /\ call = "format"
  /\ IF query.type \notin {"str", "bytes"}
     THEN /\ Raised("TypeError")
          /\ UNCHANGED sql
     ELSE /\ sql' = PiecesFrom(instance.in_regex, use_sql, 1)
          /\ pc' = "start"
          /\ UNCHANGED <<error, out_params>>
  /\ UNCHANGED <<given, result, self, call, params, many_params, pos,
                 in_params, param_conversions, in_counter, out_counter,
                 out_lookup, out_sql, row>>

format ==
  /\ pc = "format"
  /\ call = "format"
  /\ IF query.type \notin {"str", "bytes"}
     THEN /\ Raised("TypeError")
          /\ UNCHANGED sql
     ELSE /\ sql' = PiecesFrom(instance.in_regex,
                     strip_comments_from_sql(instance.strip_comment_regexes,
                                             use_sql), 1)
          /\ pc' = "start"
          /\ UNCHANGED <<error, out_params>>
  /\ UNCHANGED <<given, result, self, call, params, many_params, pos,
                 in_params, param_conversions, in_counter, out_counter,
                 out_lookup, out_sql, row>>

\* every many_params of the model is iterable
formatmany ==
  /\ pc = "format"
  /\ call = "formatmany"
  /\ IF query.type \notin {"str", "bytes"}
     THEN /\ Raised("TypeError")
          /\ UNCHANGED sql
     ELSE /\ sql' = PiecesFrom(instance.in_regex,
                     strip_comments_from_sql(instance.strip_comment_regexes,
                                             use_sql), 1)
          /\ pc' = "start"
          /\ UNCHANGED <<error, out_params>>
  /\ UNCHANGED <<given, result, self, call, params, many_params, pos,
                 in_params, param_conversions, in_counter, out_counter,
                 out_lookup, out_sql, row>>

\* format() and formatmany() once the converter has returned: the query is
\* encoded if a bytes was given, and returned with the out-parameters
return_out_sql ==
  /\ pc = "done"
  /\ LET out == OutChars(sql, out_sql)
         encoded == encode(out)
     IN IF query.type = "bytes"
        THEN IF encoded.ok
             THEN /\ result' = Bytes(encoded.v)
                  /\ pc' = "returned"
                  /\ UNCHANGED <<error, out_params>>
             ELSE /\ Raised(encoded.err)
                  /\ UNCHANGED result
        ELSE /\ result' = Str(out)
             /\ pc' = "returned"
             /\ UNCHANGED <<error, out_params>>
  /\ UNCHANGED <<given, args, pos, in_params, param_conversions, in_counter,
                 out_counter, out_lookup, out_sql, row>>

\* ------------------------------------------------------- a call as a whole
\* self._in_regex.sub(callback, sql) from piece i on: all pieces walked over
\* in order, until a callback raises
RECURSIVE SubFrom(_, _, _, _, _, _)
SubFrom(conv, first_params, st, pieces, i, replaced) ==
  IF i > Len(pieces) THEN [ok |-> TRUE, err |-> "none", st |-> st,
                          out_sql |-> replaced]
  ELSE LET r == SubPiece(conv, first_params, st, pieces[i]) IN
       IF ~r.ok THEN [ok |-> FALSE, err |-> r.err, st |-> r.st,
                      out_sql |-> replaced]
       ELSE SubFrom(conv, first_params, r.st, pieces, i + 1,
                    Append(replaced, r.repl))

Returned(q, p) == [ok |-> TRUE, err |-> "none", sql |-> q, params |-> p]
Thrown(e) == [ok |-> FALSE, err |-> e, sql |-> <<>>, params |-> <<>>]

\* convert(sql, params) of the converter conv, as one function of its
\* arguments: what a call on a fresh converter returns or raises
FormatResult(conv, pieces, p) ==
  LET checked == CheckParams(conv, p) IN
  IF ~checked.ok THEN Thrown(checked.err)
  ELSE LET scanned == SubFrom(conv, checked.v, NewScan, pieces, 1, <<>>) IN
       IF ~scanned.ok THEN Thrown(scanned.err)
       ELSE LET r == convert_params(conv, checked.v,
                                    scanned.st.param_conversions) IN
            IF ~r.ok THEN Thrown(r.err)
            ELSE Returned(scanned.out_sql, r.v)

\* __convert_many_params from the set at index i on: the rows in order, until
\* one raises
RECURSIVE ManyRowsFrom(_, _, _, _, _, _)
ManyRowsFrom(conv, first_params, many, plan, i, rows) ==
  IF i >= Len(many) THEN Ok(rows)
  ELSE LET r == convert_many_params_row(conv, first_params, many,
                                        plan, i) IN
       IF ~r.ok THEN Raise(r.err)
       ELSE ManyRowsFrom(conv, first_params, many, plan, i + 1,
                         Append(rows, r.v))

\* convert_many(sql, many_params) of the converter conv, as one function of
\* its arguments
FormatManyResult(conv, pieces, many) ==
  IF many = <<>> THEN Thrown("StopIteration")
  ELSE LET checked == CheckParams(conv, many[1]) IN
       IF ~checked.ok THEN Thrown(checked.err)
       ELSE LET scanned == SubFrom(conv, checked.v, NewScan, pieces, 1, <<>>) IN
            IF ~scanned.ok THEN Thrown(scanned.err)
            ELSE LET r == ManyRowsFrom(conv, checked.v, many,
                            scanned.st.param_conversions, 0, <<>>) IN
                 IF ~r.ok THEN Thrown(r.err)
                 ELSE Returned(scanned.out_sql, r.v)

\* SQLParams.format as a whole: the query and the out-parameters returned,
\* or the exception raised
SQLParams_format(this, given_sql, p) ==
  IF given_sql.type \notin {"str", "bytes"} THEN Thrown("TypeError")
  ELSE LET text == IF given_sql.type = "bytes" THEN decode(given_sql.v)
                   ELSE given_sql.v
           stripped == strip_comments_from_sql(this.strip_comment_regexes,
                                               text)
           pieces == PiecesFrom(this.in_regex, stripped, 1)
           r == FormatResult(this.converter, pieces, p)
           out == OutChars(pieces, r.sql)
       IN IF ~r.ok THEN r
          ELSE IF given_sql.type = "str" THEN Returned(Str(out), r.params)
          ELSE IF encode(out).ok THEN Returned(Bytes(encode(out).v), r.params)
          ELSE Thrown(encode(out).err)

\* SQLParams.formatmany as a whole: the query and the out-parameter sets
\* returned, or the exception raised
SQLParams_formatmany(this, given_sql, many) ==
  IF given_sql.type \notin {"str", "bytes"} THEN Thrown("TypeError")
  ELSE LET text == IF given_sql.type = "bytes" THEN decode(given_sql.v)
                   ELSE given_sql.v
           stripped == strip_comments_from_sql(this.strip_comment_regexes,
                                               text)
           pieces == PiecesFrom(this.in_regex, stripped, 1)
           r == FormatManyResult(this.converter, pieces, many)
           out == OutChars(pieces, r.sql)
       IN IF ~r.ok THEN r
          ELSE IF given_sql.type = "str" THEN Returned(Str(out), r.params)
          ELSE IF encode(out).ok THEN Returned(Bytes(encode(out).v), r.params)
          ELSE Thrown(encode(out).err)

\* ------------------------------------------------------------------ inputs
\* the styles the calls are checked with: one per kind on each side
InStyles == {"named", "numeric", "qmark"}
OutStyles == {"named", "numeric", "qmark"}

\* the names a named query refers to; the second is also the out name the
\* expansion of the first generates
Names == {"a", "a__0_sqlp"}
\* the numbers a numeric query refers to
Nums == {0, 1, 2}
\* the positions of a list of parameters
Positions == {1, 2}

\* the shape of a value: not a tuple, or a tuple of 0..MaxTuple elements;
\* Absent: the parameter set has no such key
NotTuple == MaxTuple + 1
Absent == MaxTuple + 2
Shapes == {NotTuple} \cup (0..MaxTuple)

\* the value of the given shape; its elements are named after id, so that
\* all values of an input differ
Val(id, shape) ==
  IF shape = NotTuple THEN Scalar(id)
  ELSE Tuple([j \in 1..shape |-> id \o "." \o ToString(j)])

\* a dict of named parameters; tag names the parameter set
NamedDict(f, tag) ==
  DictParams([n \in {m \in Names : f[m] # Absent} |-> Val(n \o tag, f[n])])

\* a list of parameters
ParamList(f, tag) ==
  ListParams([i \in DOMAIN f |-> Val("p" \o ToString(i) \o tag, f[i])])

\* the same parameters as a dict with int keys 1..n, and with digit-string
\* keys "1".."n" plus a key that is no number
IntKeyed(p) ==
  DictParams([k \in {IntKey(i) : i \in DOMAIN p.seq} |-> p.seq[k.n]])
StrKeyed(p) ==
  DictParams([k \in {StrKey(ToString(i)) : i \in DOMAIN p.seq} \cup {StrKey("x")}
                |-> IF k.s = "x" THEN Scalar("x") ELSE p.seq[IntOf(k)]])

ShapeLists == UNION {[1..n -> Shapes] : n \in 0..Cardinality(Positions)}

ParamSets(in_kind, tag) ==
  IF in_kind = "named"
  THEN {NamedDict(f, tag) : f \in [Names -> Shapes \cup {Absent}]}
       \cup {ListParams(<<>>), StrParams}
  ELSE {ParamList(f, tag) : f \in ShapeLists} \cup {StrParams, BytesParams}
       \cup {IntKeyed(ParamList([i \in Positions |-> NotTuple], tag)),
             StrKeyed(ParamList([i \in Positions |-> NotTuple], tag))}

Pieces(in_kind) ==
  {TextPiece("T")} \cup
  CASE in_kind = "named" -> {NamedParam(n) : n \in Names}
    [] in_kind = "numeric" -> {NumericParam(k) : k \in Nums}
    [] in_kind = "ordinal" -> {OrdinalParam}

\* the queries of at most max pieces; text pieces are maximal, so no two
\* are adjacent
Queries(in_kind, max) ==
  {q \in UNION {[1..n -> Pieces(in_kind)] : n \in 0..max} :
     \A i \in 1..(Len(q) - 1) : ~(q[i].t = "text" /\ q[i + 1].t = "text")}

\* ----------------------------------------------------------- specifications
\* format() on one instance
Init ==
  /\ \E in_style \in InStyles, out_style \in OutStyles, expand \in BOOLEAN :
       /\ kwargs = Kwargs("False", IF expand THEN "True" ELSE "False", FALSE)
       /\ instance = New(in_style, out_style, kwargs)
       /\ sql \in Queries(StyleKind(in_style), MaxQuery)
       /\ params \in ParamSets(StyleKind(in_style), "")
  /\ self = instance.converter
  /\ call = "format"
  /\ many_params = <<>>
  /\ Start

Next == convert \/ sub \/ convert_params_step

Spec == Init /\ [][Next]_vars

\* formatmany() on one instance.  A choice names one parameter set: the
\* first parameter is of any shape or absent (a dict without the key, a list
\* one shorter), the second is no tuple; or the set is a str
NotAParamSet == MaxTuple + 3
ManyChoices == Shapes \cup {Absent, NotAParamSet}

ManyParamSet(in_kind, c, tag) ==
  IF c = NotAParamSet THEN StrParams
  ELSE IF in_kind = "named"
  THEN NamedDict([n \in Names |-> IF n = "a" THEN c ELSE NotTuple], tag)
  ELSE IF c = Absent THEN ParamList(<<NotTuple>>, tag)
  ELSE ParamList([i \in Positions |-> IF i = 1 THEN c ELSE NotTuple], tag)

\* the queries of formatmany: matches only, of the parameters 1 and 2
ManyQueries(in_kind) ==
  {q \in Queries(in_kind, MaxManyQuery) :
     \A i \in 1..Len(q) : q[i].t = "param" /\ q[i] # NumericParam(0)}

InitMany ==
  /\ \E in_style \in InStyles, out_style \in OutStyles, expand \in BOOLEAN :
       /\ kwargs = Kwargs("False", IF expand THEN "True" ELSE "False", FALSE)
       /\ instance = New(in_style, out_style, kwargs)
       /\ sql \in ManyQueries(StyleKind(in_style))
       /\ \E n \in 0..MaxRows :
            \E c \in [1..n -> ManyChoices] :
              many_params = [i \in 1..n |->
                ManyParamSet(StyleKind(in_style), c[i], "#" \o ToString(i))]
  /\ self = instance.converter
  /\ call = "formatmany"
  /\ params = NoParams
  /\ Start

NextMany == convert_many \/ sub \/ convert_many_params_step

SpecMany == InitMany /\ [][NextMany]_vars

\* either call on one instance
InitCalls == Init \/ InitMany

NextCalls ==
  \/ convert
  \/ convert_many
  \/ sub
  \/ convert_params_step
  \/ convert_many_params_step

SpecCalls == InitCalls /\ [][NextCalls]_vars

\* format() and formatmany() of an instance on a query given as text.  A
\* text is made of at most max fragments: single characters, and whole
\* markers of the in-style
AllStyles ==
  {"format", "named", "named_dollar", "numeric", "numeric_dollar", "pyformat",
   "qmark"}

\* a marker of the in-style, of the parameter "a" or 1
MarkerOf(in_style) ==
  CASE in_style = "format" -> "%s"
    [] in_style = "named" -> ":a"
    [] in_style = "named_dollar" -> "$a"
    [] in_style = "numeric" -> ":1"
    [] in_style = "numeric_dollar" -> "$1"
    [] in_style = "pyformat" -> "%(a)s"
    [] in_style = "qmark" -> "?"
    [] in_style = "named_oracle" -> ":a"
    [] in_style = "named_sqlserver" -> "@a"

RECURSIVE Texts(_, _)
Texts(fragments, max) ==
  IF max = 0 THEN {<<>>}
  ELSE LET shorter == Texts(fragments, max - 1) IN
       shorter \cup {Chars(f) \o t : f \in fragments, t \in shorter}

\* the start of a marker twice, a whole marker, a "%", and a character that
\* continues a name or a number
MarkerFragments(in_style) ==
  {EscapedChar(in_style) \o EscapedChar(in_style), MarkerOf(in_style), "%",
   IF StyleKind(in_style) = "numeric" THEN "1" ELSE "a"}

\* comment markers, a line end, a blank and a marker
CommentFragments(in_style) ==
  {"--", "/*", "*/", "\n", " ", MarkerOf(in_style)}

\* the out-styles the texts are converted to: one per out format
TextOutStyles == {"format", "named", "numeric", "pyformat", "qmark"}

\* the parameters of a text: the first is no tuple, or a tuple of MaxTuple
\* elements
TextParams(in_style, shape, tag) ==
  IF StyleKind(in_style) = "named"
  THEN NamedDict([n \in Names |-> IF n = "a" THEN shape ELSE Absent], tag)
  ELSE ParamList(<<shape, NotTuple>>, tag)

MaxText == 3
MaxCommentText == 4
MaxBytes == 3

\* the bytes of a bytes query: those of a named marker, and bytes that are
\* not ASCII
QueryBytes == {58, 97, 128, 167}

\* the state before a call of the instance
StartText == pc = "format" /\ self = instance.converter /\ Fresh /\ Alone

\* queries with markers, escapes and "%", for every pair of styles
InitMarkers ==
  /\ \E in_style \in AllStyles, out_style \in TextOutStyles,
        escape_char \in {"True", "False"} :
       /\ kwargs = Kwargs(escape_char, "None", FALSE)
       /\ instance = New(in_style, out_style, kwargs)
       /\ query \in {Str(t) : t \in Texts(MarkerFragments(in_style), MaxText)}
       /\ params \in {TextParams(in_style, shape, "") :
                        shape \in {NotTuple, MaxTuple}}
  /\ call = "format"
  /\ many_params = <<>>
  /\ sql = <<>>
  /\ StartText

\* queries of two names, each of any shape, between the named styles
TextNames == {"a", "b"}

MarkerOfName(in_style, name) ==
  CASE in_style = "named" -> ":" \o name
    [] in_style = "named_dollar" -> "$" \o name
    [] in_style = "pyformat" -> "%(" \o name \o ")s"

InitNames ==
  /\ \E in_style \in {"named", "pyformat"},
        out_style \in {"named", "pyformat"} :
       /\ kwargs = Kwargs("False", "None", FALSE)
       /\ instance = New(in_style, out_style, kwargs)
       /\ query \in {Str(t) :
                       t \in Texts({MarkerOfName(in_style, n) : n \in TextNames}
                                   \cup {" "}, MaxText)}
  /\ params \in {DictParams([n \in TextNames |-> Val(n, f[n])]) :
                   f \in [TextNames -> {NotTuple, MaxTuple}]}
  /\ call = "format"
  /\ many_params = <<>>
  /\ sql = <<>>
  /\ StartText

\* one marker, of a parameter of either shape, for every pair of styles and
\* every way to give expand_tuples
InitOptions ==
  /\ \E in_style \in AllStyles, out_style \in TextOutStyles,
        expand_tuples \in {"None", "True", "False"} :
       /\ kwargs = Kwargs("False", expand_tuples, FALSE)
       /\ instance = New(in_style, out_style, kwargs)
       /\ query = Str(Chars(MarkerOf(in_style)))
       /\ params \in {TextParams(in_style, shape, "") :
                        shape \in {NotTuple, MaxTuple}}
  /\ call = "format"
  /\ many_params = <<>>
  /\ sql = <<>>
  /\ StartText

\* queries with comments, with and without comment stripping
InitComments ==
  /\ \E strip \in BOOLEAN : kwargs = Kwargs("False", "None", strip)
  /\ instance = New("named", "qmark", kwargs)
  /\ query \in {Str(t) : t \in Texts(CommentFragments("named"), MaxCommentText)}
  /\ params = TextParams("named", NotTuple, "")
  /\ call = "format"
  /\ many_params = <<>>
  /\ sql = <<>>
  /\ StartText

\* queries given as bytes, and a query that is neither a str nor a bytes,
\* to format() and to formatmany()
InitBytes ==
  /\ kwargs = Kwargs("True", "None", FALSE)
  /\ \E out_style \in {"named", "qmark"} :
       instance = New("named", out_style, kwargs)
  /\ query \in {Bytes(b) : b \in UNION {[1..n -> QueryBytes] : n \in 0..MaxBytes}}
               \cup {[type |-> "int", v |-> <<>>]}
  /\ \/ /\ call = "format"
        /\ params = TextParams("named", NotTuple, "")
        /\ many_params = <<>>
     \/ /\ call = "formatmany"
        /\ params = NoParams
        /\ \E n \in 0..MaxRows :
             many_params = [i \in 1..n |->
               TextParams("named", NotTuple, "#" \o ToString(i))]
  /\ sql = <<>>
  /\ StartText

\* queries with comments and numeric markers, the second with no value in
\* the shorter list of parameters, with comment stripping
StrippedFragments == {"--", "/*", "*/", "\n", ":1", ":2"}

InitStripped ==
  /\ kwargs = Kwargs("False", "None", TRUE)
  /\ instance = New("numeric", "qmark", kwargs)
  /\ query \in {Str(t) : t \in Texts(StrippedFragments, MaxCommentText)}
  /\ params \in {ParamList(<<NotTuple>>, ""),
                 ParamList(<<NotTuple, NotTuple>>, "")}
  /\ call = "format"
  /\ many_params = <<>>
  /\ sql = <<>>
  /\ StartText

InitText ==
  \/ InitMarkers \/ InitNames \/ InitOptions \/ InitComments \/ InitBytes
  \/ InitStripped

NextText ==
  \/ format
  \/ formatmany
  \/ convert
  \/ convert_many
  \/ sub
  \/ convert_params_step
  \/ convert_many_params_step
  \/ return_out_sql

SpecText == InitText /\ [][NextText]_vars

\* calls of format() and formatmany() on one instance, one after another and
\* from two threads.  Each thread has a frame, which holds the arguments and
\* the locals of its call; the frame of the thread that is not running is
\* kept in other
MaxCalls == 3

Running ==
  [query |-> query, result |-> result, call |-> call, sql |-> sql,
   params |-> params, many_params |-> many_params, pc |-> pc, pos |-> pos,
   in_params |-> in_params, param_conversions |-> param_conversions,
   in_counter |-> in_counter, out_counter |-> out_counter,
   out_lookup |-> out_lookup, out_sql |-> out_sql, row |-> row,
   out_params |-> out_params, error |-> error]

\* the in-styles and out-styles of a shared instance: one per kind, so that
\* each of the nine converters is shared
SharedMarker(in_style, n) ==
  CASE in_style = "named" -> IF n = 1 THEN ":a" ELSE ":b"
    [] in_style = "numeric" -> IF n = 1 THEN ":1" ELSE ":2"
    [] in_style = "qmark" -> "?"

\* one marker, and three markers of two parameters
SharedQueries(in_style) ==
  {Str(Chars(SharedMarker(in_style, 1))),
   Str(Chars(SharedMarker(in_style, 2) \o " " \o SharedMarker(in_style, 1)
             \o " " \o SharedMarker(in_style, 2)))}

\* the parameter set of a call: the first parameter of the given shape, the
\* second no tuple, or absent.  The values are named after the call
SharedParams(in_style, shape, short, tag) ==
  IF StyleKind(in_style) = "named"
  THEN DictParams([n \in (IF short THEN {"a"} ELSE {"a", "b"}) |->
                     Val(n \o tag, IF n = "a" THEN shape ELSE NotTuple)])
  ELSE ParamList(IF short THEN <<shape>> ELSE <<shape, NotTuple>>, tag)

SharedParamSets(in_style, tag) ==
  {SharedParams(in_style, NotTuple, FALSE, tag),
   SharedParams(in_style, MaxTuple, FALSE, tag),
   SharedParams(in_style, NotTuple, TRUE, tag)}

\* the parameter sets of a call of formatmany(): two sets of the same keys
SharedManyParams(in_style, tag) ==
  <<SharedParams(in_style, NotTuple, FALSE, tag \o "a"),
    SharedParams(in_style, NotTuple, FALSE, tag \o "b")>>

InitShared ==
  /\ \E in_style \in InStyles, out_style \in OutStyles :
       /\ kwargs = Kwargs("False", "None", FALSE)
       /\ instance = New(in_style, out_style, kwargs)
       /\ query \in SharedQueries(in_style)
       /\ \/ /\ call = "format"
             /\ params \in SharedParamSets(in_style, "#1")
             /\ many_params = <<>>
          \/ /\ call = "formatmany"
             /\ params = NoParams
             /\ many_params = SharedManyParams(in_style, "#1")
  /\ sql = <<>>
  /\ StartText

\* a thread calls format() or formatmany() of the instance: a thread that
\* has made no call yet, or one whose call has ended.  The locals of the
\* frame are not bound yet: they hold what the memory held
call_again ==
  /\ pc \in {"idle", "returned", "raised"}
  /\ calls < MaxCalls
  /\ calls' = calls + 1
  /\ query' \in SharedQueries(instance.in_style)
  /\ LET tag == "#" \o ToString(calls + 1) IN
     \/ /\ call' = "format"
        /\ params' \in SharedParamSets(instance.in_style, tag)
        /\ many_params' = <<>>
     \/ /\ call' = "formatmany"
        /\ params' = NoParams
        /\ many_params' = SharedManyParams(instance.in_style, tag)
  /\ pc' = "format"
  /\ result' = NoQuery
  /\ error' = "none"
  /\ UNCHANGED <<kwargs, instance, self, other, sql, pos, in_params,
                 param_conversions, in_counter, out_counter, out_lookup,
                 out_sql, row, out_params>>

\* the interpreter switches threads: the running call is suspended where it
\* is, and the other thread goes on with its frame
switch ==
  /\ other' = Running
  /\ query' = other.query
  /\ result' = other.result
  /\ call' = other.call
  /\ sql' = other.sql
  /\ params' = other.params
  /\ many_params' = other.many_params
  /\ pc' = other.pc
  /\ pos' = other.pos
  /\ in_params' = other.in_params
  /\ param_conversions' = other.param_conversions
  /\ in_counter' = other.in_counter
  /\ out_counter' = other.out_counter
  /\ out_lookup' = other.out_lookup
  /\ out_sql' = other.out_sql
  /\ row' = other.row
  /\ out_params' = other.out_params
  /\ error' = other.error
  /\ UNCHANGED <<kwargs, instance, self, calls>>

NextShared ==
  \/ call_again
  \/ switch
  \/ format
  \/ formatmany
  \/ convert
  \/ convert_many
  \/ sub
  \/ convert_params_step
  \/ convert_many_params_step
  \/ return_out_sql

SpecShared == InitShared /\ [][NextShared]_vars

\* format() of an instance whose in-style folds the names that are not in
\* double quotes.  The keys of the parameters are in lower and in upper
\* case, in double quotes and not, and one has a double quote at one end
\* only; the markers are of the same names, in double quotes and not
FoldedKeys == {"a", "A", "\"a\"", "\"A\"", "\"a"}
MaxKeys == 2

FoldedDicts ==
  {ItemsDict(keys, [k \in {keys[j] : j \in DOMAIN keys} |-> Scalar(k)]) :
     keys \in {ks \in UNION {[1..n -> FoldedKeys] : n \in 0..MaxKeys} :
                \A i, j \in DOMAIN ks : i # j => ks[i] # ks[j]}}

FoldedPieces ==
  {TextPiece("T"), NamedParam("a"), NamedParam("A"), QuotedParam("a"),
   QuotedParam("A")}

FoldedQueries ==
  {q \in UNION {[1..n -> FoldedPieces] : n \in 0..MaxQuery} :
     \A i \in 1..(Len(q) - 1) : ~(q[i].t = "text" /\ q[i + 1].t = "text")}

InitFolded ==
  /\ kwargs = Kwargs("False", "None", FALSE)
  /\ \E out_style \in OutStyles : instance = New("named_oracle", out_style, kwargs)
  /\ sql \in FoldedQueries
  /\ params \in FoldedDicts
  /\ self = instance.converter
  /\ call = "format"
  /\ many_params = <<>>
  /\ Start

SpecFolded == InitFolded /\ [][Next]_vars

\* SQLParams(in_style, out_style, ...), and a call of format() of the
\* instance it gives
STYLES == AllStyles \cup DOMAIN DIALECT_STYLES

\* no instance: the constructor has not returned
NoInstance == [in_style |-> "", out_style |-> "", converter |-> "none"]

\* the arguments of the constructor
Args(in_style, out_style, kw) ==
  [in_style |-> in_style, out_style |-> out_style,
   escape_char |-> kw.escape_char, expand_tuples |-> kw.expand_tuples,
   strip_comments |-> kw.strip_comments]

\* SQLParams.__init__: STYLES[in_style] and STYLES[out_style] raise KeyError
\* for a name that is no style; the converter is created and kept
SQLParams_init ==
  /\ pc = "new"
  /\ IF kwargs.in_style \notin STYLES \/ kwargs.out_style \notin STYLES
     THEN /\ Raised("KeyError")
          /\ UNCHANGED <<instance, self>>
     ELSE /\ instance' = New(kwargs.in_style, kwargs.out_style, kwargs)
          /\ self' = New(kwargs.in_style, kwargs.out_style, kwargs).converter
          /\ pc' = "format"
          /\ UNCHANGED <<error, out_params>>
  /\ UNCHANGED <<kwargs, query, other, calls, result, call, sql, params,
                 many_params, pos, in_params, param_conversions, in_counter,
                 out_counter, out_lookup, out_sql, row>>

\* a name that is no style
NoStyle == "named_at"

\* one marker, and a parameter set of the shape of the in-style
InitNew ==
  /\ \E in_style \in STYLES \cup {NoStyle}, out_style \in STYLES \cup {NoStyle},
        escape_char \in {"True", "False"},
        expand_tuples \in {"None", "True", "False"} :
       /\ kwargs = Args(in_style, out_style,
                        Kwargs(escape_char, expand_tuples, FALSE))
       /\ query = IF in_style \in STYLES THEN Str(Chars(MarkerOf(in_style)))
                  ELSE Str(<<>>)
       /\ params = IF in_style \notin STYLES THEN NoParams
                   ELSE IF StyleKind(in_style) = "named"
                   THEN ItemsDict(<<"a">>, [k \in {"a"} |-> Scalar("a")])
                   ELSE ParamList(<<NotTuple>>, "")
  /\ instance = NoInstance
  /\ self = NoInstance.converter
  /\ call = "format"
  /\ many_params = <<>>
  /\ sql = <<>>
  /\ pc = "new"
  /\ Fresh
  /\ Alone

NextNew ==
  \/ SQLParams_init
  \/ format
  \/ convert
  \/ sub
  \/ convert_params_step
  \/ return_out_sql

SpecNew == InitNew /\ [][NextNew]_vars

\* ------------------------------------------------------------- observations
\* format() has returned out_sql, out_params
FormatDone == call = "format" /\ pc = "done"

IsMatch(i) == sql[i].t = "param"

\* the key into in_params the i-th piece of the query, a match, refers to
InRef(i) ==
  CASE StyleKind(self.in_style) = "named" -> sql[i].name
    [] StyleKind(self.in_style) = "numeric" -> sql[i].num - NumericStart
    [] StyleKind(self.in_style) = "ordinal" ->
         Cardinality({j \in 1..(i - 1) : IsMatch(j)})

\* the value the i-th piece resolves to
ResolvedValue(i) == GetItem(in_params, InRef(i)).v

\* the out markers of a replacement, in order
MarksOf(repl) == SelectSeq(repl, LAMBDA a : a.t = "mark")

\* the number of out markers written before the i-th piece
MarksBefore(i) == Len(MarksOf(Flat(SubSeq(out_sql, 1, i - 1))))

\* the out-parameters a marker denotes in the result outp: those under the
\* key or number the marker is formatted from, or at the marker's position
\* nth among the markers of an ordinal query
Denoted(mark, nth, outp) ==
  CASE StyleKind(self.out_style) = "named" ->
         {outp[k] : k \in {k \in DOMAIN outp :
                             mark = Mark(OutFormat(self.out_style, k))}}
    [] StyleKind(self.out_style) = "numeric" ->
         {outp[n] : n \in {n \in 1..Len(outp) : mark = NumericRepl(self, n - 1)}}
    [] StyleKind(self.out_style) = "ordinal" ->
         {outp[n] : n \in {nth} \cap (1..Len(outp))}

\* k markers that stand at consecutive places: consecutive numbers, distinct
\* keys (the positions of ordinal markers always are consecutive)
Consecutive(marks) ==
  CASE StyleKind(self.out_style) = "named" ->
         \A j, h \in 1..Len(marks) : j # h => marks[j] # marks[h]
    [] StyleKind(self.out_style) = "numeric" ->
         \A j \in 1..(Len(marks) - 1) :
           \E n \in 0..Len(out_params) :
             marks[j] = NumericRepl(self, n) /\ marks[j + 1] = NumericRepl(self, n + 1)
    [] StyleKind(self.out_style) = "ordinal" -> TRUE

\* ---------------------------------------------------------------- claim C1
\* the i-th piece, resolved to a non-empty tuple, is rewritten to "(" + k out
\* markers joined by "," + ")" that denote the k elements in order
ExpandedAt(i) ==
  LET v == ResolvedValue(i)
      marks == MarksOf(out_sql[i])
  IN /\ out_sql[i] = Paren(marks)
     /\ Len(marks) = Len(v.v)
     /\ Consecutive(marks)
     /\ \A j \in 1..Len(marks) :
          Denoted(marks[j], MarksBefore(i) + j, out_params) = {Scalar(v.v[j])}

\* the i-th piece is rewritten to one out marker that denotes its value
PassedThroughAt(i) ==
  LET marks == MarksOf(out_sql[i])
  IN /\ out_sql[i] = marks
     /\ Len(marks) = 1
     /\ Denoted(marks[1], MarksBefore(i) + 1, out_params) = {ResolvedValue(i)}

\* C1: with tuple expansion enabled, whenever format returns, every marker
\* resolved to a non-empty tuple of length k is replaced by "(" + k out
\* markers joined by "," + ")" and the k elements are the out-parameters at
\* those markers, in tuple order; a value that is no tuple is emitted as one
\* out marker and passed through unchanged
C1_TupleExpansion ==
  (FormatDone /\ self.expand_tuples) =>
    \A i \in 1..Len(sql) : IsMatch(i) =>
      IF IsTuple(ResolvedValue(i))
      THEN ResolvedValue(i).v # <<>> => ExpandedAt(i)
      ELSE PassedThroughAt(i)

\* the same statement away from the out-name collision of named-to-named
\* expansion: no generated name "<name>__<i>_sqlp" is a name of the query
NoGeneratedNameReferenced ==
  ConverterClass(self) = <<"named", "named">> =>
    \A i, h \in 1..Len(sql) :
      (IsMatch(i) /\ IsMatch(h) /\ IsTuple(ResolvedValue(i))) =>
        \A j \in 1..Len(ResolvedValue(i).v) :
          NamedSubNames(sql[i].name, ResolvedValue(i))[j] # sql[h].name

C1_AwayFromCollision ==
  (FormatDone /\ self.expand_tuples /\ NoGeneratedNameReferenced) =>
    \A i \in 1..Len(sql) : IsMatch(i) =>
      IF IsTuple(ResolvedValue(i))
      THEN ResolvedValue(i).v # <<>> => ExpandedAt(i)
      ELSE PassedThroughAt(i)

\* ---------------------------------------------------------------- claim C2
\* re.sub() has walked over the whole query: every marker is resolved
Scanned == pc \in {"convert_params", "convert_many_params", "done", "raised"}
           /\ pos = Len(sql)

\* the i-th piece is a marker whose value is the empty tuple
EmptyAt(i) == IsMatch(i) /\ ResolvedValue(i) = Tuple(<<>>)

\* all out markers of the rewritten query, in order
AllMarks == MarksOf(Flat(out_sql))

\* every out-parameter returned is one an out marker of the query denotes
EveryParamMarked ==
  CASE StyleKind(self.out_style) = "named" ->
         \A k \in DOMAIN out_params :
           \E j \in 1..Len(AllMarks) :
             AllMarks[j] = Mark(OutFormat(self.out_style, k))
    [] StyleKind(self.out_style) = "numeric" ->
         \A n \in 1..Len(out_params) :
           \E j \in 1..Len(AllMarks) : AllMarks[j] = NumericRepl(self, n - 1)
    [] StyleKind(self.out_style) = "ordinal" ->
         Len(out_params) = Len(AllMarks)

\* what C2 says of a returned result: "(NULL)" stands for each marker of the
\* empty tuple, which has no out marker and so no out-parameter; the other
\* markers are converted as ever
NullWritten ==
  /\ \A i \in 1..Len(sql) : EmptyAt(i) => out_sql[i] = <<Lit("(NULL)")>>
  /\ EveryParamMarked
  /\ \A i \in 1..Len(sql) : (IsMatch(i) /\ ~EmptyAt(i)) =>
       IF IsTuple(ResolvedValue(i)) THEN ExpandedAt(i) ELSE PassedThroughAt(i)

\* C2: with tuple expansion enabled, for every in/out style pair, a format
\* call whose markers all resolve, one of them to the empty tuple, returns;
\* that marker is replaced by the text "(NULL)" and contributes no slot, key
\* or number to the out-parameters, and the other markers are converted as
\* if it were absent
C2_EmptyTuple ==
  (call = "format" /\ self.expand_tuples /\ pc \in {"done", "raised"}
     /\ Scanned /\ \E i \in 1..Len(sql) : EmptyAt(i)) =>
    (pc = "done" /\ NullWritten)

\* the same statement where the call returns
C2_WhereReturned ==
  (FormatDone /\ self.expand_tuples /\ \E i \in 1..Len(sql) : EmptyAt(i)) =>
    NullWritten

\* ---------------------------------------------------------------- claim C3
\* the references of the query
Refs == {InRef(i) : i \in {i \in 1..Len(sql) : IsMatch(i)}}

\* the value a reference resolves to
RefValue(ref) == GetItem(in_params, ref).v

\* the out slots a reference needs: k for a tuple of k elements that is
\* expanded, one otherwise
SlotsNeeded(ref) ==
  IF self.expand_tuples /\ IsTuple(RefValue(ref)) THEN Len(RefValue(ref).v)
  ELSE 1

RECURSIVE SumSlots(_)
SumSlots(refs) ==
  IF refs = {} THEN 0
  ELSE LET ref == CHOOSE r \in refs : TRUE
       IN SlotsNeeded(ref) + SumSlots(refs \ {ref})

\* the out markers written for the i-th piece, as a set
MarkSet(i) == {MarksOf(out_sql[i])[j] : j \in 1..Len(MarksOf(out_sql[i]))}

DedupedClass ==
  ConverterClass(self) \in {<<"named", "numeric">>, <<"numeric", "numeric">>}

\* C3: for a numeric out-style with a named or numeric in-style, whenever
\* format returns, all occurrences of one reference are rewritten alike (to
\* the same out number, or the same k numbers for an expanded tuple), two
\* references share no out number, and the out-parameter list has one slot per
\* distinct reference (k per expanded tuple)
C3_NumericDedup ==
  (FormatDone /\ DedupedClass) =>
    /\ \A i, h \in 1..Len(sql) : (IsMatch(i) /\ IsMatch(h)) =>
         IF InRef(i) = InRef(h) THEN out_sql[i] = out_sql[h]
         ELSE MarkSet(i) \cap MarkSet(h) = {}
    /\ \A i \in 1..Len(sql) : IsMatch(i) =>
         Len(MarksOf(out_sql[i])) = SlotsNeeded(InRef(i))
    /\ Len(out_params) = SumSlots(Refs)

\* a returned call in which an expanded tuple of two or more elements occurs
\* twice, next to another reference
C3_Witness ==
  /\ FormatDone /\ DedupedClass /\ self.expand_tuples
  /\ \E i, h, g \in 1..Len(sql) :
       /\ i < h /\ IsMatch(i) /\ IsMatch(h) /\ IsMatch(g)
       /\ InRef(i) = InRef(h) /\ InRef(g) # InRef(i)
       /\ IsTuple(ResolvedValue(i)) /\ Len(ResolvedValue(i).v) >= 2

\* ---------------------------------------------------------------- claim C4
RepeatingClass ==
  ConverterClass(self) \in {<<"named", "ordinal">>, <<"numeric", "ordinal">>}

\* the out-parameters from list position from + 1 on, n of them; None where
\* the list has ended
Entries(from, n) ==
  [j \in 1..n |-> IF from + j <= Len(out_params) THEN out_params[from + j]
                  ELSE None]

\* C4 as stated: for an ordinal out-style with a named or numeric in-style,
\* whenever format returns, each occurrence of a reference has produced one
\* out marker and one entry of the out-parameter list, carrying the
\* reference's value, in the order of the occurrences; so a reference that
\* occurs m times has m markers and m entries
C4_OnePerOccurrence ==
  (FormatDone /\ RepeatingClass) =>
    /\ \A i \in 1..Len(sql) : IsMatch(i) =>
         /\ Len(MarksOf(out_sql[i])) = 1
         /\ Entries(MarksBefore(i), 1) = <<ResolvedValue(i)>>
    /\ Len(out_params) = Cardinality({i \in 1..Len(sql) : IsMatch(i)})

\* C4, amended: each occurrence of a reference whose value is not expanded
\* has produced one out marker and one entry carrying the value; each
\* occurrence of a reference whose value is a tuple of k elements, with
\* expansion enabled, has produced k out markers and k entries carrying the
\* elements in order (none for k = 0); the entries follow the order of the
\* occurrences, and there are no other entries
C4_OrdinalRepeats ==
  (FormatDone /\ RepeatingClass) =>
    /\ \A i \in 1..Len(sql) : IsMatch(i) =>
         LET v == ResolvedValue(i) IN
         IF self.expand_tuples /\ IsTuple(v)
         THEN /\ Len(MarksOf(out_sql[i])) = Len(v.v)
              /\ Entries(MarksBefore(i), Len(v.v)) =
                   [j \in 1..Len(v.v) |-> Scalar(v.v[j])]
         ELSE /\ Len(MarksOf(out_sql[i])) = 1
              /\ Entries(MarksBefore(i), 1) = <<v>>
    /\ Len(out_params) = Len(AllMarks)

\* a returned call in which a reference that is not expanded occurs twice
\* and an expanded tuple of two or more elements occurs as well
C4_Witness ==
  /\ FormatDone /\ RepeatingClass /\ self.expand_tuples
  /\ \E i, h, g \in 1..Len(sql) :
       /\ i < h /\ IsMatch(i) /\ IsMatch(h) /\ IsMatch(g)
       /\ InRef(i) = InRef(h) /\ ~IsTuple(ResolvedValue(i))
       /\ IsTuple(ResolvedValue(g)) /\ Len(ResolvedValue(g).v) >= 2

\* ---------------------------------------------------------------- claim C5
\* formatmany() has returned out_sql, many_out_params
ManyDone == call = "formatmany" /\ pc = "done"

\* what the reference ref gets from the i-th parameter set
RowItem(i, ref) ==
  LET checked == CheckParams(self, many_params[i])
  IN IF checked.ok THEN GetItem(checked.v, ref) ELSE Raise(checked.err)

\* every expanded reference has the same tuple length in all sets: a
\* reference of the query that is a tuple in one set is a tuple of that
\* length in every set
UniformTuples ==
  self.expand_tuples =>
    \A ref \in Refs :
      \A i \in 1..Len(many_params) :
        (RowItem(i, ref).ok /\ IsTuple(RowItem(i, ref).v)) =>
          \A h \in 1..Len(many_params) :
            /\ RowItem(h, ref).ok
            /\ IsTuple(RowItem(h, ref).v)
            /\ Len(RowItem(h, ref).v.v) = Len(RowItem(i, ref).v.v)

\* C5: whenever formatmany(query, [p1..pN]) returns and every expanded
\* reference has the same tuple length in all sets, the query returned is
\* the query format(query, p1) returns, and the list returned has N
\* elements, the i-th being the out-parameters format(query, pi) returns
C5_ManyIsFormatPerSet ==
  (ManyDone /\ UniformTuples) =>
    /\ FormatResult(self, sql, many_params[1]).ok
    /\ FormatResult(self, sql, many_params[1]).sql = out_sql
    /\ Len(out_params) = Len(many_params)
    /\ \A i \in 1..Len(many_params) :
         /\ FormatResult(self, sql, many_params[i]).ok
         /\ FormatResult(self, sql, many_params[i]).params = out_params[i]

\* formatmany has returned for two sets or more and a query with an expanded
\* tuple that has one length in all sets
C5_Witness ==
  /\ ManyDone /\ UniformTuples /\ self.expand_tuples
  /\ Len(many_params) >= 2
  /\ \E ref \in Refs :
       RowItem(1, ref).ok /\ IsTuple(RowItem(1, ref).v)
         /\ Len(RowItem(1, ref).v.v) >= 1

\* ---------------------------------------------------------------- claim C6
\* every set gives a value to every reference of the query
AllResolve ==
  \A h \in 1..Len(many_params) : \A ref \in Refs : RowItem(h, ref).ok

FirstIsTuple(ref) == IsTuple(RowItem(1, ref).v)

\* in the later set h the reference ref, a tuple in the first set, is a
\* tuple of another length, or no tuple
OtherLength(h, ref) ==
  /\ FirstIsTuple(ref) /\ IsTuple(RowItem(h, ref).v)
  /\ Len(RowItem(h, ref).v.v) # Len(RowItem(1, ref).v.v)
NoTuple(h, ref) == FirstIsTuple(ref) /\ ~IsTuple(RowItem(h, ref).v)

\* the errors the offending values of the later sets call for
MismatchErrors ==
  {e \in {"ValueError", "TypeError"} :
     \E h \in 2..Len(many_params) : \E ref \in Refs :
       IF e = "ValueError" THEN OtherLength(h, ref) ELSE NoTuple(h, ref)}

\* formatmany has ended, returning or raising, after the whole query was
\* scanned with the first set
ManyEnded ==
  call = "formatmany" /\ pc \in {"done", "raised"} /\ Scanned

\* C6: in formatmany with tuple expansion enabled, when a reference is a
\* tuple in the first set and, in a later set, a tuple of another length or
\* no tuple, the call fails with ValueError or TypeError respectively and
\* returns no parameter list
C6_LaterSetsChecked ==
  (ManyEnded /\ self.expand_tuples /\ AllResolve /\ MismatchErrors # {}) =>
    (pc = "raised" /\ error \in MismatchErrors /\ out_params = <<>>)

\* the same statement for first sets without an empty tuple
C6_WhereFirstNotEmpty ==
  (ManyEnded /\ self.expand_tuples /\ AllResolve /\ MismatchErrors # {}
     /\ \A ref \in Refs : RowItem(1, ref).v # Tuple(<<>>)) =>
    (pc = "raised" /\ error \in MismatchErrors /\ out_params = <<>>)

\* ---------------------------------------------------------------- claim C7
\* the i-th piece is the first match of its reference
FirstOccurrence(i) ==
  IsMatch(i) /\ \A h \in 1..(i - 1) : IsMatch(h) => InRef(h) # InRef(i)

\* the out slots taken by the references met before the i-th piece
SlotsBefore(i) == SumSlots({InRef(h) : h \in {h \in 1..(i - 1) : IsMatch(h)}})

\* the out-parameters the value of the i-th piece is converted to
Converted(i) ==
  LET v == ResolvedValue(i) IN
  IF self.expand_tuples /\ IsTuple(v) THEN [j \in 1..Len(v.v) |-> Scalar(v.v[j])]
  ELSE <<v>>

\* C7: in numeric-to-numeric conversion, whenever format returns, the out
\* numbers follow the order of first occurrence in the query, not the in
\* numbers: a reference met for the first time takes the numbers after those
\* of the references met before it, and its value stands at those places of
\* the out-parameter list
C7_FirstOccurrenceOrder ==
  (FormatDone /\ ConverterClass(self) = <<"numeric", "numeric">>) =>
    \A i \in 1..Len(sql) : FirstOccurrence(i) =>
      /\ MarksOf(out_sql[i]) =
           [j \in 1..SlotsNeeded(InRef(i)) |->
              NumericRepl(self, SlotsBefore(i) + j - 1)]
      /\ Entries(SlotsBefore(i), SlotsNeeded(InRef(i))) = Converted(i)

\* a returned numeric-to-numeric call on a query with ":2" before ":1": the
\* value of ":2" is out-parameter 1 and the value of ":1" out-parameter 2
C7_Witness ==
  /\ FormatDone /\ ConverterClass(self) = <<"numeric", "numeric">>
  /\ Len(sql) = 2 /\ sql[1] = NumericParam(2) /\ sql[2] = NumericParam(1)
  /\ in_params = ListParams(<<Scalar("p1"), Scalar("p2")>>)
  /\ AllMarks = <<NumericRepl(self, 0), NumericRepl(self, 1)>>
  /\ out_params = <<Scalar("p2"), Scalar("p1")>>

\* ---------------------------------------------------------------- claim C8
Matches == {i \in 1..Len(sql) : IsMatch(i)}

\* the query has N distinct parameter references: no reference is repeated
NoRepeats == \A i, h \in Matches : i # h => InRef(i) # InRef(h)

\* no value is expanded
NoExpansion ==
  \A i \in Matches : ~(self.expand_tuples /\ IsTuple(ResolvedValue(i)))

\* the number of out-parameters, of a list or a mapping
Size(outp) == Cardinality(DOMAIN outp)

\* C8: for each of the nine converter pairs, whenever format returns for a
\* query with N distinct parameter references, none repeated and none
\* expanded, the rewritten query has N out markers, one per reference, and
\* there are N out-parameters, in the order of the markers: the j-th marker
\* denotes the value of the j-th reference, and an out-parameter list holds
\* the values in that order
C8_OnePerReference ==
  (FormatDone /\ NoRepeats /\ NoExpansion) =>
    /\ Len(AllMarks) = Cardinality(Matches)
    /\ Size(out_params) = Cardinality(Matches)
    /\ \A i \in Matches :
         /\ Len(MarksOf(out_sql[i])) = 1
         /\ Denoted(MarksOf(out_sql[i])[1], MarksBefore(i) + 1, out_params)
              = {ResolvedValue(i)}
         /\ StyleKind(self.out_style) # "named" =>
              Entries(MarksBefore(i), 1) = <<ResolvedValue(i)>>

\* a returned call for a query with text and two or more distinct references
C8_Witness ==
  /\ FormatDone /\ NoRepeats /\ NoExpansion
  /\ Cardinality(Matches) >= 2
  /\ Len(sql) > Cardinality(Matches)

\* ---------------------------------------------------------------- claim C9
\* format() has ended: what it returned, or that it raised
FormatEnded == call = "format" /\ pc \in {"done", "raised"}
Outcome == IF pc = "done" THEN Returned(out_sql, out_params) ELSE Thrown(error)

\* two calls end alike: both raise, or both return the same query and
\* parameters
SameResult(a, b) ==
  /\ a.ok = b.ok
  /\ a.ok => (a.sql = b.sql /\ a.params = b.params)

\* C9: for a numeric in-style, a format call given the sequence [v1..vn]
\* ends as the calls given the mapping {1: v1, .., n: vn} and the mapping
\* {"1": v1, .., "n": vn} with a further key that is no number
C9_SequenceOrMapping ==
  (FormatEnded /\ StyleKind(self.in_style) = "numeric" /\ is_sequence(params)) =>
    /\ SameResult(Outcome, FormatResult(self, sql, IntKeyed(params)))
    /\ SameResult(Outcome, FormatResult(self, sql, StrKeyed(params)))

\* the same statement for queries without the marker ":0"
C9_WithoutMarkerZero ==
  (FormatEnded /\ StyleKind(self.in_style) = "numeric" /\ is_sequence(params)
     /\ \A i \in 1..Len(sql) : sql[i] # NumericParam(0)) =>
    /\ SameResult(Outcome, FormatResult(self, sql, IntKeyed(params)))
    /\ SameResult(Outcome, FormatResult(self, sql, StrKeyed(params)))

\* --------------------------------------------------------------- claim C10
\* the i-th piece, a marker, has an entry in the parameter set supplied: its
\* name is a key of the mapping; its number k is in 1..n for a sequence of n
\* values, or a key (as an int or as a digit string) of the mapping; an
\* ordinal marker has a value left, the markers before it taking one each
HasEntry(i) ==
  CASE StyleKind(self.in_style) = "named" -> sql[i].name \in DOMAIN params.map
    [] StyleKind(self.in_style) = "numeric" ->
         IF is_sequence(params) THEN sql[i].num \in 1..Len(params.seq)
         ELSE \E k \in DOMAIN params.map :
                (k.t = "int" \/ IsDigitStr(k.s)) /\ IntOf(k) = sql[i].num
    [] StyleKind(self.in_style) = "ordinal" ->
         Cardinality({h \in 1..i : IsMatch(h)}) <=
           (IF is_sequence(params) THEN Len(params.seq)
            ELSE Cardinality({k \in DOMAIN params.map :
                                k.t = "int" \/ IsDigitStr(k.s)}))

\* LookupError: IndexError of a sequence, KeyError of a mapping
LookupErrors == {"IndexError", "KeyError"}

\* C10: a format call given a parameter set of the shape its in-style takes
\* and a query with a marker that has no entry in that set fails with a
\* lookup error and returns nothing
C10_MissingEntryRaises ==
  (FormatEnded /\ CheckParams(self, params).ok
     /\ \E i \in 1..Len(sql) : IsMatch(i) /\ ~HasEntry(i)) =>
    (pc = "raised" /\ error \in LookupErrors /\ out_params = <<>>)

\* the same statement for queries without the marker ":0"
C10_WithoutMarkerZero ==
  (FormatEnded /\ CheckParams(self, params).ok
     /\ (\A i \in 1..Len(sql) : sql[i] # NumericParam(0))
     /\ \E i \in 1..Len(sql) : IsMatch(i) /\ ~HasEntry(i)) =>
    (pc = "raised" /\ error \in LookupErrors /\ out_params = <<>>)

\* --------------------------------------------------------------- claim C11
\* the shape of the parameter set p is one the in-style takes: a mapping for
\* a named in-style; a sequence that is no str or bytes, or a mapping, for a
\* numeric or ordinal in-style
ShapeFits(p) ==
  IF StyleKind(self.in_style) = "named" THEN p.shape = "map"
  ELSE p.shape \in {"seq", "map"}

\* formatmany() has ended, returning or raising
ManyCallEnded == call = "formatmany" /\ pc \in {"done", "raised"}

\* the sets given to formatmany whose shape does not fit
Misfits == {i \in 1..Len(many_params) : ~ShapeFits(many_params[i])}

\* nothing of the query is rewritten and nothing is returned
NothingRewritten == pos = 0 /\ out_sql = <<>> /\ out_params = <<>>

\* C11: format fails with TypeError, before rewriting anything, when the
\* shape of the parameter set does not fit the in-style, and with no
\* TypeError when it fits; formatmany fails and returns nothing when the
\* shape of a set at any index does not fit: with TypeError before rewriting
\* anything for the first set, with TypeError for a later set once the sets
\* before it are converted
C11_ShapeChecked ==
  /\ FormatEnded =>
       IF ShapeFits(params) THEN error # "TypeError"
       ELSE pc = "raised" /\ error = "TypeError" /\ NothingRewritten
  /\ (ManyCallEnded /\ Misfits # {}) =>
       /\ pc = "raised" /\ out_params = <<>>
       /\ 1 \in Misfits => (error = "TypeError" /\ NothingRewritten)
       /\ (row >= 1 /\ row + 1 \in Misfits) => error = "TypeError"

\* formatmany has raised TypeError for a second set that is a str, the first
\* set being converted
C11_Witness ==
  /\ call = "formatmany" /\ pc = "raised" /\ error = "TypeError"
  /\ row = 1 /\ Misfits = {2} /\ param_conversions # <<>>

\* --------------------------------------------------------------- claim C12
\* C12: for every converter pair, formatmany given no parameter set fails at
\* once with StopIteration, the error of an exhausted iterator, without
\* rewriting the query and without returning anything
C12_NoSetsRaises ==
  (call = "formatmany" /\ many_params = <<>> /\ pc # "start") =>
    (pc = "raised" /\ error = "StopIteration" /\ NothingRewritten)

\* formatmany has raised for no parameter set and a query with a marker
C12_Witness ==
  /\ call = "formatmany" /\ many_params = <<>> /\ Matches # {}
  /\ pc = "raised" /\ error = "StopIteration"

\* ------------------------------------------------------ observations, text
\* the text the converter is given: the query decoded, its comments stripped
Stripped ==
  strip_comments_from_sql(instance.strip_comment_regexes, use_sql)

\* the call has gone past decoding and stripping: sql holds the pieces
Cut == query.type \in {"str", "bytes"} /\ pc # "format"

\* the number of characters of the text a piece is made of
PieceLen(piece) ==
  CASE piece.t \in {"text", "out_percent"} -> 1
    [] piece.t = "escape" -> Len(piece.esc)
    [] piece.t = "param" ->
         CASE instance.in_style = "format" -> 2
           [] instance.in_style = "qmark" -> 1
           [] instance.in_style = "pyformat" -> 4 + Len(piece.name)
           [] OTHER -> 1 + Len(piece.name)

\* where in the text the i-th piece starts
RECURSIVE PieceStart(_)
PieceStart(i) ==
  IF i = 1 THEN 1 ELSE PieceStart(i - 1) + PieceLen(sql[i - 1])

\* the character that starts a marker of the in-style
Lead == EscapedChar(instance.in_style)

\* the characters of the query returned
ResultText == IF result.type = "bytes" THEN decode(result.v) ELSE result.v

\* escaping is enabled, with the character of the in-style
OwnEscape == instance.escape_char = StyleEscapeChar(instance.in_style)

\* --------------------------------------------------------------- claim C13
\* how many Leads stand in a row just before text[k]
RECURSIVE LeadsBefore(_, _)
LeadsBefore(text, k) ==
  IF CharAt(text, k - 1) = Lead THEN 1 + LeadsBefore(text, k - 1) ELSE 0

\* text[k] and text[k + 1] are an escaped marker start: the Lead twice, not
\* split by the pairs before them
EscapeSequenceAt(text, k) ==
  /\ CharAt(text, k) = Lead
  /\ CharAt(text, k + 1) = Lead
  /\ LeadsBefore(text, k) % 2 = 0

\* every escape sequence of the text is a piece of its own
EscapesCut ==
  \A k \in 1..Len(Stripped) :
    EscapeSequenceAt(Stripped, k) =>
      \E i \in 1..Len(sql) :
        PieceStart(i) = k /\ sql[i] = EscapePiece(<<Lead, Lead>>)

\* re.sub() walks over the next piece, changing nothing but the text written
CopiedAs(chars) ==
  /\ out_sql' = Append(out_sql, <<Lit(chars)>>)
  /\ pos' = pos + 1
  /\ UNCHANGED <<param_conversions, in_counter, out_counter, out_lookup,
                 out_params, error>>

\* C13: with escaping enabled by escape_char=True, every doubled marker start
\* of the query ("::", "$$", "%%", "??") is a match of its own that is
\* replaced by the single character, and walking over it, as over each
\* character outside a match, consumes no parameter: no plan entry is
\* recorded, no out number is taken, and the position of the next ordinal
\* marker does not advance
C13_EscapedMarker ==
  /\ [](Cut /\ OwnEscape => EscapesCut)
  /\ [][(pc = "sub" /\ OwnEscape) =>
          /\ sql[pos + 1].t = "escape" => CopiedAs(Lead)
          /\ sql[pos + 1].t = "text" => CopiedAs(sql[pos + 1].s)]_vars

\* a call of an ordinal in-style has returned for a query with an escape
\* sequence, then text, then a marker
C13_Witness ==
  /\ pc = "returned" /\ OwnEscape
  /\ StyleKind(instance.in_style) = "ordinal"
  /\ Len(sql) = 3
  /\ sql[1].t = "escape" /\ sql[2].t = "text" /\ sql[3].t = "param"
  /\ Len(param_conversions) = 1

\* --------------------------------------------------------------- claim C14
\* every "%" of the text is a piece of its own: an out-percent match if the
\* out-style escapes with "%", a character outside any match if not
PercentsCut ==
  \A k \in 1..Len(Stripped) :
    Stripped[k] = "%" =>
      \E i \in 1..Len(sql) :
        /\ PieceStart(i) = k
        /\ sql[i] = IF StyleEscapeChar(instance.out_style) = "%"
                    THEN OutPercentPiece ELSE TextPiece("%")

\* C14: for an in-style that does not escape with "%" (named, named_dollar,
\* numeric, numeric_dollar, qmark), every "%" of the query is written as
\* "%%" if the out-style escapes with "%" (format, pyformat) and copied
\* unchanged if it does not, and consumes no parameter either way
C14_OutPercent ==
  /\ [](Cut /\ StyleEscapeChar(instance.in_style) # "%" => PercentsCut)
  /\ [][pc = "sub" =>
          /\ sql[pos + 1].t = "out_percent" => CopiedAs("%%")
          /\ sql[pos + 1] = TextPiece("%") => CopiedAs("%")]_vars

\* a call from qmark to pyformat has returned "%%" for "%", between two
\* markers that took the first two parameters
C14_Witness ==
  /\ pc = "returned"
  /\ instance.in_style = "qmark" /\ instance.out_style = "pyformat"
  /\ query = Str(<<"?", "%", "?">>)
  /\ result = Str(Chars("%(_0)s%%%(_1)s"))
  /\ Len(param_conversions) = 2

\* --------------------------------------------------------------- claim C15
\* format() has returned for a query with escape sequences and no other match
EscapesOnly ==
  /\ call = "format" /\ pc = "returned" /\ OwnEscape
  /\ \E k \in 1..Len(Stripped) : EscapeSequenceAt(Stripped, k)
  /\ \A i \in 1..Len(sql) : sql[i].t \in {"escape", "text"}

\* the text with every doubled Lead, from the left, replaced by one
RECURSIVE Collapsed(_, _)
Collapsed(text, k) ==
  IF k > Len(text) THEN <<>>
  ELSE IF text[k] = Lead /\ CharAt(text, k + 1) = Lead
  THEN <<Lead>> \o Collapsed(text, k + 2)
  ELSE <<text[k]>> \o Collapsed(text, k + 1)

\* the call repeated on the query returned, same instance, same parameters
Again == SQLParams_format(instance, result, params)

\* the pieces of the query returned
PiecesAgain == PiecesFrom(instance.in_regex, ResultText, 1)

NamesReferred == {sql[i].name : i \in {j \in 1..Len(sql) : sql[j].t = "param"}}

\* format() has returned from a named-to-named conversion without expansion
NamedToNamedReturned ==
  /\ call = "format" /\ pc = "returned"
  /\ ConverterClass(self) = <<"named", "named">>
  /\ ~instance.expand_tuples

ExpandExpected ==
  IF kwargs.expand_tuples = "None"
  THEN StyleKind(instance.out_style) \in {"numeric", "ordinal"}
  ELSE kwargs.expand_tuples = "True"

\* C17: an instance created without expand_tuples expands tuples if its
\* out-style is numeric or ordinal and does not if it is named, an instance
\* created with expand_tuples True or False does as told, whatever the
\* in-style: its converter is set accordingly, and whenever format returns,
\* every marker of a non-empty tuple is rewritten to the parenthesised
\* markers of its elements if expansion is enabled, and to one marker that
\* carries the tuple if it is not
C17_ExpandDefault ==
  /\ instance.expand_tuples = ExpandExpected
  /\ self.expand_tuples = ExpandExpected
  /\ (call = "format" /\ pc = "returned") =>
       \A i \in 1..Len(sql) :
         (IsMatch(i) /\ IsTuple(ResolvedValue(i))
                     /\ ResolvedValue(i).v # <<>>) =>
           IF ExpandExpected THEN ExpandedAt(i) ELSE PassedThroughAt(i)

\* a call has returned an expanded tuple for an instance created without
\* expand_tuples
C17_Witness ==
  /\ call = "format" /\ pc = "returned"
  /\ kwargs.expand_tuples = "None"
  /\ StyleKind(instance.in_style) = "numeric"
  /\ StyleKind(instance.out_style) = "ordinal"
  /\ \E i \in 1..Len(sql) : IsMatch(i) /\ IsTuple(ResolvedValue(i))
                                       /\ ExpandedAt(i)

\* --------------------------------------------------------------- claim C18
\* the places in the text given of the characters the comment regular
\* expressions leave, one substitution after the other; at[k] is the place
\* of text[k] in the text given
RECURSIVE KeptPlaces(_, _, _)
KeptPlaces(strip_comment_regexes, text, at) ==
  IF strip_comment_regexes = <<>> THEN at
  ELSE LET kept == KeptFrom(Head(strip_comment_regexes), text, 1) IN
       KeptPlaces(Tail(strip_comment_regexes),
                  [k \in 1..Len(kept) |-> text[kept[k]]],
                  [k \in 1..Len(kept) |-> at[kept[k]]])

\* the places of the characters removed from the text given
Removed ==
  LET kept == KeptPlaces(instance.strip_comment_regexes, use_sql,
                         [k \in 1..Len(use_sql) |-> k])
  IN (1..Len(use_sql)) \ {kept[k] : k \in 1..Len(kept)}

\* the first text on the line that starts at p, blanks apart, is the marker of
\* a single-line comment or the start marker of a multi-line comment
CommentIsFirst(text, p) ==
  /\ p = 1 \/ text[p - 1] = "\n"
  /\ \E c \in 1..Len(DEFAULT_COMMENTS) :
       StartsWith(text, SkipBlanks(text, p), DEFAULT_COMMENTS[c].start)

\* C18: with the default comment styles stripped, a comment is removed only
\* from a marker on that is the first text on its line, blanks and the
\* comments removed before it apart: every run of removed characters begins
\* at the start of a line whose first text is a comment marker.  So a comment
\* that follows text that is kept on its line is never removed, and a query
\* where no line begins with a comment marker is converted as it was given;
\* without comment stripping nothing is removed
C18_FirstOnLine ==
  (query.type = "str" /\ pc # "format") =>
    /\ \A p \in Removed : p - 1 \in Removed \/ CommentIsFirst(use_sql, p)
    /\ Stripped = [k \in 1..(Len(use_sql) - Cardinality(Removed)) |->
                     use_sql[CHOOSE p \in (1..Len(use_sql)) \ Removed :
                       Cardinality({r \in (1..p) \ Removed : TRUE}) = k]]
    /\ ~kwargs.strip_comments => Removed = {}

\* a call has returned "?--" for "--\n:a--": the comment of the first line
\* is removed, the trailing one of the second line stays
C18_Witness ==
  /\ pc = "returned" /\ kwargs.strip_comments
  /\ query = Str(<<"-", "-", "\n", ":", "a", "-", "-">>)
  /\ Removed = {1, 2, 3}
  /\ result = Str(Chars("?--"))

\* --------------------------------------------------------------- claim C19
\* where in the query returned the replacement of the i-th piece starts
RECURSIVE OutStart(_)
OutStart(i) ==
  IF i = 1 THEN 1
  ELSE OutStart(i - 1) + (IF sql[i - 1].t = "text" THEN 1
                          ELSE Len(AtomsChars(out_sql[i - 1])))

\* the places in the query given of the characters given to the converter
Kept ==
  KeptPlaces(instance.strip_comment_regexes, use_sql,
             [k \in 1..Len(use_sql) |-> k])

\* the encoding of bytes is a bijection on the bytes 0..255: decoding a byte
\* and encoding it again gives that byte, and no two bytes decode to the
\* same character
ByteRoundTrip ==
  /\ \A b \in ByteValues : encode(decode(<<b>>)) = Ok(<<b>>)
  /\ \A b, c \in ByteValues : decode(<<b>>) = decode(<<c>>) => b = c

\* C19: whenever format or formatmany returns, the query returned is of the
\* type of the query given, a bytes for a bytes and a str for a str, and
\* every byte (or character) of the query given that is outside the matches
\* and the stripped comments is returned as it is, in its place between the
\* replacements; the encoding of bytes is a bijection on the bytes 0..255
C19_SameType ==
  /\ ByteRoundTrip
  /\ pc = "returned" =>
       /\ result.type = query.type
       /\ \A i \in 1..Len(sql) :
            sql[i].t = "text" =>
              result.v[OutStart(i)] = query.v[Kept[PieceStart(i)]]

\* formatmany has returned a bytes for a bytes with a marker after a byte
\* that is not ASCII
C19_Witness ==
  /\ call = "formatmany" /\ pc = "returned"
  /\ instance.out_style = "qmark"
  /\ query = Bytes(<<167, 58, 97>>)
  /\ result = Bytes(<<167, 63>>)

\* --------------------------------------------------------------- claim C20
\* format has ended, given a query with nothing to rewrite in it (no marker
\* of the in-style, no escape, no "%" to double, no comment to strip) and a
\* parameter set of the shape the in-style takes
PlainQueryEnded ==
  /\ call = "format" /\ Cut /\ pc \in {"returned", "raised"}
  /\ CheckParams(self, params).ok
  /\ \A i \in 1..Len(sql) : sql[i].t = "text"
  /\ Removed = {}

\* the empty out-parameters of an out-style: {} for a named one, [] for a
\* numeric or ordinal one
EmptyOut(out_style) ==
  IF StyleKind(out_style) = "named" THEN EmptyDict ELSE <<>>

\* C20: for every pair of in-style and out-style, format given a query with
\* no marker of the in-style in it (and no escape, "%" conflict or comment)
\* returns the query as given and empty out-parameters: an empty list for a
\* numeric or ordinal out-style, an empty mapping for a named one
C20_NoMarkerUnchanged ==
  PlainQueryEnded =>
    /\ pc = "returned"
    /\ result = query
    /\ out_params = EmptyOut(instance.out_style)

\* the same statement for the out-styles that are not numeric
C20_AwayFromNumericOut ==
  (PlainQueryEnded /\ StyleKind(instance.out_style) # "numeric") =>
    /\ pc = "returned"
    /\ result = query
    /\ out_params = EmptyOut(instance.out_style)

\* for a numeric out-style the call raises IndexError
C20_NumericOutRaises ==
  (PlainQueryEnded /\ StyleKind(instance.out_style) = "numeric") =>
    (pc = "raised" /\ error = "IndexError")

\* --------------------------------------------------------------- claim C23
\* the parameter sets that may follow the first one: at most MaxRows - 1
\* sets of any choice
LaterSets ==
  UNION {{[i \in 1..n |-> ManyParamSet(StyleKind(self.in_style), c[i],
                                        "#" \o ToString(i + 1))] :
            c \in [1..n -> ManyChoices]} : n \in 0..(MaxRows - 1)}

\* the formatmany call given the same query and first set, and other sets
\* after it
WithLaterSets(later) ==
  FormatManyResult(self, sql, <<many_params[1]>> \o later)

\* C23: whenever formatmany returns, the query it returns is the query any
\* formatmany call returns that is given the same query and the same first
\* set and returns, whatever sets follow the first
C23_FirstSetDecides ==
  ManyDone =>
    \A later \in LaterSets :
      WithLaterSets(later).ok => WithLaterSets(later).sql = out_sql

\* formatmany has returned a query with a tuple expanded, and a call given
\* other sets after the first returns too
C23_Witness ==
  /\ ManyDone /\ Len(many_params) = 2
  /\ \E i \in 1..Len(sql) : Len(MarksOf(out_sql[i])) = MaxTuple
  /\ \E later \in LaterSets :
       later # <<many_params[2]>> /\ WithLaterSets(later).ok

\* --------------------------------------------------------------- claim C24
\* format has ended on an instance that strips comments
StrippingEnded ==
  /\ call = "format" /\ Cut /\ pc \in {"returned", "raised"}
  /\ instance.strip_comment_regexes # <<>>

\* the markers of the query as given, and where each starts
GivenPieces == PiecesFrom(instance.in_regex, use_sql, 1)

RECURSIVE GivenStart(_)
GivenStart(j) ==
  IF j = 1 THEN 1 ELSE GivenStart(j - 1) + PieceLen(GivenPieces[j - 1])

\* the markers of the query given that lie in a comment stripped
MarkersStripped ==
  {j \in 1..Len(GivenPieces) :
     GivenPieces[j].t = "param" /\ GivenStart(j) \in Removed}

\* the same call on an instance that strips no comment, given the query
\* without its comments
OfTextLeft ==
  SQLParams_format(New(instance.in_style, instance.out_style,
                       [kwargs EXCEPT !.strip_comments = FALSE]),
                   Str(Stripped), params)

\* C24: format on an instance that strips comments ends as format on the
\* text left after stripping: a marker inside a stripped comment is not
\* looked up in the parameters, gives no out marker and no out-parameter,
\* and the markers left are converted to the same out markers and the same
\* out-parameters, in the same places, as without the comments (one
\* out-parameter for each marker left, no parameter of these queries being
\* a tuple); every piece converted is cut from the text left, not from a
\* comment
C24_StrippedFirst ==
  StrippingEnded =>
    /\ IF pc = "returned"
       THEN /\ OfTextLeft.ok
            /\ OfTextLeft.sql = result
            /\ OfTextLeft.params = out_params
            /\ Len(out_params) = Cardinality(Matches)
       ELSE ~OfTextLeft.ok /\ OfTextLeft.err = error
    /\ \A i \in Matches :
         PieceStart(i) \in DOMAIN Kept /\ Kept[PieceStart(i)] \notin Removed

\* format has returned the parameter for ":1", the only marker left: the
\* marker ":2" is in the comment stripped, and the parameters have no
\* second value
C24_Witness ==
  /\ pc = "returned"
  /\ query = Str(Chars("--:2\n:1"))
  /\ params = ParamList(<<NotTuple>>, "")
  /\ MarkersStripped # {}
  /\ result = Str(Chars("?"))
  /\ out_params = <<Scalar("p1")>>

\* --------------------------------------------------------------- claim C25
\* escaping is disabled
NoEscape == instance.escape_char = ""

\* text[k] is a marker start next to another one
DoubledAt(text, k) ==
  /\ CharAt(text, k) = Lead
  /\ CharAt(text, k - 1) = Lead \/ CharAt(text, k + 1) = Lead

\* a marker of the in-style stands at text[k], not preceded by a marker
\* start and followed by the marker start twice (in the qmark style a "?"
\* followed by a "?" is no marker)
MarkerThenDoubled(text, k) ==
  LET m == ParamPattern(instance.in_style, text, k) IN
  /\ m.found
  /\ CharAt(text, k - 1) # Lead
  /\ CharAt(text, m.end) = Lead /\ CharAt(text, m.end + 1) = Lead

\* the piece that starts at text[k] is of type t
PieceAt(k, t) == \E i \in 1..Len(sql) : PieceStart(i) = k /\ sql[i].t = t

\* C25: with escaping disabled, no parameter starts at a marker start that
\* is preceded by the same character; each of the marker starts of a doubled
\* one ("::", "$$", "%%", "??") is text outside the matches, returned as it
\* is, and consumes no parameter (an ordinal marker after it takes the
\* position after that of the marker before it); a marker followed by a
\* doubled marker start (":a::") is a parameter
C25_Lookbehind ==
  (Cut /\ NoEscape) =>
    /\ \A i \in Matches : CharAt(Stripped, PieceStart(i) - 1) # Lead
    /\ \A k \in 1..Len(Stripped) :
         /\ DoubledAt(Stripped, k) => PieceAt(k, "text")
         /\ MarkerThenDoubled(Stripped, k) => PieceAt(k, "param")
    /\ pc = "returned" =>
         /\ \A i \in 1..Len(sql) :
              (sql[i].t = "text" /\ DoubledAt(Stripped, PieceStart(i))) =>
                ResultText[OutStart(i)] = Lead
         /\ StyleKind(instance.in_style) = "ordinal" =>
              in_counter = Cardinality(Matches)

\* format has returned for a query of a marker and a doubled marker start
\* after it: the marker is converted and the doubled start is kept
C25_Witness ==
  /\ pc = "returned" /\ NoEscape
  /\ instance.in_style = "named" /\ instance.out_style = "qmark"
  /\ query = Str(Chars(":a::"))
  /\ result = Str(Chars("?::"))
  /\ Len(out_params) = 1

\* --------------------------------------------------------------- claim C26
\* the instance strips the default comments
StripsDefault == instance.strip_comment_regexes = DEFAULT_COMMENTS

\* where the end markers of a multi-line comment stand that starts, after
\* blanks, at text[p]
EndMarkersAfter(text, p) ==
  {k \in (SkipBlanks(text, p) + Len(DEFAULT_COMMENTS[1].start))..Len(text) :
     StartsWith(text, k, DEFAULT_COMMENTS[1].end)}

\* a multi-line comment starts on the line that starts at text[p]: its
\* start marker is the first text on the line, and an end marker follows
MultiLineAt(text, p) ==
  /\ AtLineStart(text, p)
  /\ StartsWith(text, SkipBlanks(text, p), DEFAULT_COMMENTS[1].start)
  /\ EndMarkersAfter(text, p) # {}

\* the first multi-line comment of the text starts at text[p]
FirstMultiLineAt(text, p) ==
  MultiLineAt(text, p) /\ \A h \in 1..(p - 1) : ~MultiLineAt(text, h)

\* past the nearest end marker of the comment that starts at text[p], and
\* the line end after it
PastComment(text, p) ==
  LET nearest == CHOOSE k \in EndMarkersAfter(text, p) :
                   \A h \in EndMarkersAfter(text, p) : k <= h
  IN PastNewline(text, nearest + Len(DEFAULT_COMMENTS[1].end))

\* a comment marker starts somewhere in text[from..to]
CommentStartIn(text, from, to) ==
  \E k \in from..to :
    \E c \in 1..Len(DEFAULT_COMMENTS) :
      StartsWith(text, k, DEFAULT_COMMENTS[c].start)

\* C26: with the default comment styles, the first multi-line comment of a
\* query is removed as a whole from the start of its line up to the nearest
\* end marker after its start marker (and the line end after it), whatever
\* it contains, lines that look like single-line comments included; the
\* text after it is left up to the next comment marker (and the blanks
\* before that marker), a later end marker included, and a marker of the
\* in-style in it is converted
C26_NearestEnd ==
  (Cut /\ StripsDefault) =>
    \A p \in 1..Len(use_sql) :
      FirstMultiLineAt(use_sql, p) =>
        LET end == PastComment(use_sql, p) IN
        /\ \A r \in p..(end - 1) : r \in Removed
        /\ \A r \in end..Len(use_sql) :
             ~CommentStartIn(use_sql, end, SkipBlanks(use_sql, r)) =>
               /\ r \notin Removed
               /\ \A j \in 1..Len(GivenPieces) :
                    (GivenPieces[j].t = "param" /\ GivenStart(j) = r) =>
                      \E i \in Matches :
                        /\ PieceStart(i) \in DOMAIN Kept
                        /\ Kept[PieceStart(i)] = r

\* format has returned for a query of a multi-line comment, one more end
\* marker and a marker: the end marker is left and the marker is converted
C26_Witness ==
  /\ pc = "returned" /\ StripsDefault
  /\ query = Str(Chars("/**/*/:a"))
  /\ result = Str(Chars("*/?"))
  /\ Len(out_params) = 1

\* --------------------------------------------------------------- claim C28
\* a conversion to a numeric out-style has returned
NumericOutDone == pc = "done" /\ StyleKind(self.out_style) = "numeric"

\* the rows of out-parameters returned, and the parameter set of each
OutRows == IF call = "format" THEN <<out_params>> ELSE out_params
InRow(r) ==
  IF call = "format" THEN in_params ELSE CheckParams(self, many_params[r]).v

\* the places of the plan that write the slot s: <<k, j>> for the j-th out
\* index of the k-th conversion
WritesOf(s) ==
  {w \in (1..Len(param_conversions)) \X (1..MaxTuple) :
     /\ w[2] <= Len(param_conversions[w[1]].out)
     /\ param_conversions[w[1]].out[w[2]] = s}

\* what the place w of the plan writes, of the parameter set p
Written(w, p) ==
  LET c == param_conversions[w[1]]
      value == GetItem(p, c.in).v
  IN IF c.expand THEN Scalar(value.v[w[2]]) ELSE value

\* C28: whenever a conversion to a numeric out-style returns (format, and
\* formatmany for each of its rows), with n the out numbers taken: the
\* numbers of the out markers of the query returned are exactly 1..n; each
\* list of out-parameters has length n, which is the row size computed from
\* the last conversion of the plan; each slot 0..n-1 is written by exactly
\* one place of the plan, with the value of its in-parameter (the element of
\* the tuple for an expanded one), so that no slot keeps the None it was
\* allocated with
C28_NumericOut ==
  NumericOutDone =>
    /\ {AllMarks[j] : j \in 1..Len(AllMarks)}
         = {Mark(OutFormat(self.out_style, ToString(k))) : k \in 1..out_counter}
    /\ RowSize(param_conversions) = Ok(out_counter)
    /\ \A s \in 0..(out_counter - 1) : Cardinality(WritesOf(s)) = 1
    /\ \A r \in 1..Len(OutRows) :
         /\ Len(OutRows[r]) = out_counter
         /\ \A s \in 0..(out_counter - 1) :
              /\ OutRows[r][s + 1] # None
              /\ \A w \in WritesOf(s) : OutRows[r][s + 1] = Written(w, InRow(r))

\* format has returned for a query of a tuple, another parameter and the
\* tuple again: the out numbers are 1..MaxTuple + 1
C28_Witness ==
  /\ NumericOutDone /\ call = "format"
  /\ out_counter = MaxTuple + 1
  /\ Len(AllMarks) = 2 * MaxTuple + 1

\* --------------------------------------------------------------- claim C29
\* a conversion to a named out-style with tuple expansion has returned
NamedOutDone ==
  /\ FormatDone /\ StyleKind(self.out_style) = "named"
  /\ self.expand_tuples

\* the places of the plan: <<k, j>> for the j-th out name of the k-th
\* conversion
PlanPlaces ==
  {w \in (1..Len(param_conversions)) \X (1..MaxTuple) :
     w[2] <= Len(param_conversions[w[1]].out)}

\* C29: whenever a conversion to a named out-style with tuple expansion
\* returns, two places of the plan that write the same out key are of the
\* same in-parameter and the same element: distinct in-parameters, and
\* distinct elements of an expanded tuple, have distinct out keys, and every
\* out key holds the value its place writes
C29_DistinctKeys ==
  NamedOutDone =>
    /\ \A w, x \in PlanPlaces :
         param_conversions[w[1]].out[w[2]] = param_conversions[x[1]].out[x[2]]
           => /\ param_conversions[w[1]].in = param_conversions[x[1]].in
              /\ w[2] = x[2]
    /\ \A w \in PlanPlaces :
         /\ param_conversions[w[1]].out[w[2]] \in DOMAIN out_params
         /\ out_params[param_conversions[w[1]].out[w[2]]] = Written(w, in_params)

\* the same statement for queries that refer to no name the expansion
\* generates
C29_AwayFromGenerated ==
  (NamedOutDone /\ NoGeneratedNameReferenced) =>
    /\ \A w, x \in PlanPlaces :
         param_conversions[w[1]].out[w[2]] = param_conversions[x[1]].out[x[2]]
           => /\ param_conversions[w[1]].in = param_conversions[x[1]].in
              /\ w[2] = x[2]
    /\ \A w \in PlanPlaces :
         /\ param_conversions[w[1]].out[w[2]] \in DOMAIN out_params
         /\ out_params[param_conversions[w[1]].out[w[2]]] = Written(w, in_params)

\* --------------------------------------------------------------- claim C30
\* the out-style escapes with "%"
PercentOut == StyleEscapeChar(instance.out_style) = "%"
\* the in-style escapes with "%"
PercentIn == StyleEscapeChar(instance.in_style) = "%"

\* the characters of a text outside its markers: the replacement of every
\* piece that is no parameter, and "" in place of each marker
RECURSIVE Literals(_, _)
Literals(pieces, replaced) ==
  IF pieces = <<>> THEN <<>>
  ELSE (CASE Head(pieces).t = "param" -> <<"">>
          [] Head(pieces).t = "text" -> <<Head(pieces).s>>
          [] OTHER -> AtomsChars(Head(replaced)))
       \o Literals(Tail(pieces), Tail(replaced))

\* the literal characters of the query given: each piece that is no
\* parameter as it is written
RECURSIVE GivenLiterals(_)
GivenLiterals(pieces) ==
  IF pieces = <<>> THEN <<>>
  ELSE (CASE Head(pieces).t = "param" -> <<"">>
          [] Head(pieces).t = "text" -> <<Head(pieces).s>>
          [] Head(pieces).t = "escape" -> Head(pieces).esc
          [] OTHER -> <<"%">>)
       \o GivenLiterals(Tail(pieces))

\* how many "%" stand in a row up to chars[k]
RECURSIVE PercentsUpTo(_, _)
PercentsUpTo(chars, k) ==
  IF CharAt(chars, k) = "%" THEN 1 + PercentsUpTo(chars, k - 1) ELSE 0

\* every "%" of chars is one of a pair "%%"
AllDoubled(chars) ==
  \A k \in 1..Len(chars) :
    (chars[k] = "%" /\ CharAt(chars, k + 1) # "%") =>
      PercentsUpTo(chars, k) % 2 = 0

\* format has returned a query for an out-style that escapes with "%"; the
\* literal "%" of the query given are doubled if its in-style escapes with
\* "%"
PercentOutReturned ==
  /\ call = "format" /\ pc = "returned" /\ PercentOut
  /\ PercentIn => AllDoubled(GivenLiterals(sql))

\* C30: whenever format returns a query for an out-style that escapes with
\* "%" (format, pyformat), every "%" of that query outside its out markers
\* is one of a pair "%%", for every in-style and with escaping enabled or
\* disabled, the literal "%" of the query given being doubled where the
\* in-style escapes with "%"
C30_PercentDoubled ==
  PercentOutReturned => AllDoubled(Literals(sql, out_sql))

\* the same statement away from the in-styles that escape with "%" used
\* with escaping enabled
C30_AwayFromPercentEscape ==
  (PercentOutReturned /\ ~(PercentIn /\ instance.escape_char = "%")) =>
    AllDoubled(Literals(sql, out_sql))

\* with an in-style that escapes with "%" and escaping enabled, every pair
\* "%%" of the query given is returned as one "%"
C30_PairsHalved ==
  (PercentOutReturned /\ PercentIn /\ instance.escape_char = "%") =>
    \A i \in 1..Len(sql) : sql[i].t = "escape" => out_sql[i] = <<Lit("%")>>

\* ---------------------------------------------------------------- C21
\* what the call of a frame returns or raises on an instance constructed
\* for it alone, with the arguments the shared instance was constructed with
OnFreshInstance(f) ==
  LET fresh == New(instance.in_style, instance.out_style, kwargs) IN
  IF f.call = "format" THEN SQLParams_format(fresh, f.query, f.params)
  ELSE SQLParams_formatmany(fresh, f.query, f.many_params)

\* a call that has ended has ended as on a fresh instance
AsOnFreshInstance(f) ==
  /\ f.pc = "returned" =>
       /\ OnFreshInstance(f).ok
       /\ f.result = OnFreshInstance(f).sql
       /\ f.out_params = OnFreshInstance(f).params
  /\ f.pc = "raised" =>
       /\ ~OnFreshInstance(f).ok
       /\ f.error = OnFreshInstance(f).err

\* C21: whatever calls of format() and formatmany() an instance was given
\* before, and whatever call of another thread is under way on it, a call
\* returns the query and the out-parameters, or raises the exception, that
\* the same call gives on a freshly constructed instance; and no step of a
\* call changes the instance, its converter or what it was constructed with
C21_Reusable ==
  /\ [](AsOnFreshInstance(Running) /\ AsOnFreshInstance(other))
  /\ [][instance' = instance /\ self' = self /\ kwargs' = kwargs]_vars

\* the third call of a numeric-out instance has returned numbered
\* parameters while the call of the other thread is in the middle of its
\* scan, with parameters numbered and cached
C21_Witness ==
  /\ calls = MaxCalls
  /\ pc = "returned"
  /\ StyleKind(instance.out_style) = "numeric"
  /\ Len(out_params) > 1
  /\ other.pc = "sub"
  /\ other.pos > 0
  /\ other.out_counter > 0
  /\ other.param_conversions # <<>>

\* ---------------------------------------------------------------- C27
\* the name a marker goes by: as written if it is in double quotes, folded
\* to upper case if it is not
FoldedName(i) == IF sql[i].quote # "" THEN sql[i].name ELSE upper(sql[i].name)

InQuotes(k) ==
  Len(k) > 1 /\ SubSeq(k, 1, 1) = "\"" /\ SubSeq(k, Len(k), Len(k)) = "\""
HalfQuoted(k) ==
  /\ ~InQuotes(k)
  /\ Len(k) > 0
  /\ (SubSeq(k, 1, 1) = "\"" \/ SubSeq(k, Len(k), Len(k)) = "\"")

\* the name a key goes by: what is between its double quotes, or the key
\* folded to upper case
KeyName(k) == IF InQuotes(k) THEN SubSeq(k, 2, Len(k) - 1) ELSE upper(k)

\* the keys of the parameters given that go by the name of the marker i, by
\* their place among the keys
KeysOf(i) ==
  {n \in DOMAIN params.seq :
     ~HalfQuoted(params.seq[n]) /\ KeyName(params.seq[n]) = FoldedName(i)}

FirstKeyOf(i) == CHOOSE n \in KeysOf(i) : \A m \in KeysOf(i) : n <= m

\* a key that is no key is met before a key of the marker i is
Blocked(i) ==
  \E n \in DOMAIN params.seq :
    /\ HalfQuoted(params.seq[n])
    /\ \A m \in KeysOf(i) : n < m

Resolves(i) == KeysOf(i) # {} /\ ~Blocked(i)

FoldedRank(i) == Cardinality({j \in Matches : j <= i})

NamedFamily ==
  {"named", "named_dollar", "pyformat", "named_oracle", "named_sqlserver"}
NumericFamily == {"numeric", "numeric_dollar"}
OrdinalFamily == {"format", "qmark"}
Specified == NamedFamily \cup NumericFamily \cup OrdinalFamily

KindOfFamily(name) ==
  IF name \in NamedFamily THEN "named"
  ELSE IF name \in NumericFamily THEN "numeric" ELSE "ordinal"

Kinds == {"named", "numeric", "ordinal"}

\* the marker the variant of the two kinds writes for the one marker given:
\* a named out-style names the parameter after the name, folded by a
\* case-folding in-style, or "_" and its number or place; a numeric
\* out-style numbers it from 1; an ordinal out-style writes its marker
MarkerOfVariant(in_style, out_style) ==
  CASE KindOfFamily(out_style) = "named" ->
         OutFormat(out_style,
                   CASE KindOfFamily(in_style) = "named" ->
                          IF in_style = "named_oracle" THEN "A" ELSE "a"
                     [] KindOfFamily(in_style) = "numeric" -> "_1"
                     [] KindOfFamily(in_style) = "ordinal" -> "_0")
    [] KindOfFamily(out_style) = "numeric" -> OutFormat(out_style, "1")
    [] KindOfFamily(out_style) = "ordinal" -> OutFormat(out_style, "")

Constructed == pc \notin {"new", "raised"} \/ (pc = "raised" /\ instance # NoInstance)

====
